---- MODULE Spec2Model ----
(***************************************************************************)
(* A model of the Third Eye RAG chatbot backend: the guardrails, the       *)
(* stateful RAG graph behind POST /chat/graph, the POST /chat handler, and *)
(* the ingestion side (task queue, PDF and web pipelines, vector index).   *)
(* Texts are sequences of one-character strings so that lower-casing,      *)
(* substring tests, stripping and the citation pattern are computed.       *)
(***************************************************************************)
EXTENDS Integers, Sequences, FiniteSets, TLC

(***************************************************************************)
(* Texts                                                                   *)
(***************************************************************************)

\* Guardrails.MEDICAL_KEYWORDS, one character per element.
MEDICAL_KEYWORDS ==
  << <<"d","i","a","g","n","o","s","e">>,
     <<"d","i","a","g","n","o","s","i","s">>,
     <<"c","u","r","e">>,
     <<"t","r","e","a","t">>,
     <<"t","r","e","a","t","m","e","n","t">>,
     <<"p","r","e","s","c","r","i","b","e">>,
     <<"p","r","e","s","c","r","i","p","t","i","o","n">>,
     <<"m","e","d","i","c","a","t","i","o","n">>,
     <<"d","r","u","g">>,
     <<"d","i","s","e","a","s","e">>,
     <<"d","i","s","o","r","d","e","r">>,
     <<"c","o","n","d","i","t","i","o","n">>,
     <<"i","l","l","n","e","s","s">> >>

\* emergency_keywords of Guardrails.check_query.
emergency_keywords ==
  << <<"e","m","e","r","g","e","n","c","y">>,
     <<"c","r","i","s","i","s">>,
     <<"s","u","i","c","i","d","e">>,
     <<"h","a","r","m">> >>

\* practice_keywords of Guardrails.check_response.
practice_keywords ==
  << <<"p","r","a","c","t","i","c","e">>,
     <<"t","e","c","h","n","i","q","u","e">>,
     <<"e","x","e","r","c","i","s","e">>,
     <<"m","e","d","i","t","a","t","i","o","n">> >>

\* The warning words of Guardrails.check_response.
warning_words ==
  << <<"c","a","u","t","i","o","n">>,
     <<"w","a","r","n","i","n","g">>,
     <<"r","i","s","k">>,
     <<"c","o","n","t","r","a","i","n","d","i","c","a","t","i","o","n">> >>

\* The marker check_response looks for in the lower-cased response.
SourceMarkerLower ==
  <<"[","s","o","u","r","c","e",":">>

\* The literal prefix of the citation pattern of extract_citations.
SourceMarker ==
  <<"[","S","o","u","r","c","e",":">>

\* The fixed apology string of _generate_node.
APOLOGY ==
  <<"I"," ","a","p","o","l","o","g","i","z","e",","," ","b","u","t"," ","I"," ","e","n","c","o",
    "u","n","t","e","r","e","d"," ","a","n"," ","e","r","r","o","r"," ","g","e","n","e","r","a",
    "t","i","n","g"," ","a"," ","r","e","s","p","o","n","s","e",".">>

\* The fixed text returned by Guardrails.handle_emergency (non-ASCII characters by code point).
EMERGENCY_MESSAGE ==
  <<"U+1F6A8"," ","I","f"," ","y","o","u","'","r","e"," ","e","x","p","e","r","i","e","n","c",
    "i","n","g"," ","a"," ","m","e","n","t","a","l"," ","h","e","a","l","t","h"," ","e","m","e",
    "r","g","e","n","c","y"," ","o","r"," ","c","r","i","s","i","s",","," ","p","l","e","a","s",
    "e",":","\n","\n","1","."," ","C","a","l","l"," ","e","m","e","r","g","e","n","c","y"," ",
    "s","e","r","v","i","c","e","s"," ","(","9","1","1"," ","i","n"," ","U","S",")","\n","2",
    "."," ","C","o","n","t","a","c","t"," ","a"," ","c","r","i","s","i","s"," ","h","e","l","p",
    "l","i","n","e",":","\n"," "," "," ","-"," ","N","a","t","i","o","n","a","l"," ","S","u",
    "i","c","i","d","e"," ","P","r","e","v","e","n","t","i","o","n"," ","L","i","f","e","l","i",
    "n","e",":"," ","9","8","8","\n"," "," "," ","-"," ","C","r","i","s","i","s"," ","T","e",
    "x","t"," ","L","i","n","e",":"," ","T","e","x","t"," ","H","O","M","E"," ","t","o"," ","7",
    "4","1","7","4","1","\n","3","."," ","G","o"," ","t","o"," ","y","o","u","r"," ","n","e",
    "a","r","e","s","t"," ","e","m","e","r","g","e","n","c","y"," ","r","o","o","m","\n","\n",
    "T","h","i","s"," ","c","h","a","t","b","o","t"," ","p","r","o","v","i","d","e","s"," ","m",
    "e","d","i","t","a","t","i","o","n"," ","g","u","i","d","a","n","c","e"," ","o","n","l","y",
    " ","a","n","d"," ","c","a","n","n","o","t"," ","h","e","l","p"," ","w","i","t","h"," ","e",
    "m","e","r","g","e","n","c","i","e","s","."," ","P","l","e","a","s","e"," ","s","e","e","k",
    " ","i","m","m","e","d","i","a","t","e"," ","p","r","o","f","e","s","s","i","o","n","a","l",
    " ","h","e","l","p",".">>

\* Queries of the requests the model enumerates.
Q_crisis ==
  <<"I","'","m"," ","h","a","v","i","n","g"," ","a"," ","C","R","I","S","I","S">>

Q_diagnose ==
  <<"C","a","n"," ","y","o","u"," ","d","i","a","g","n","o","s","e"," ","m","y"," ","h","e","a",
    "d","a","c","h","e","?">>

Q_trataka ==
  <<"H","o","w"," ","d","o"," ","I"," ","p","r","a","c","t","i","c","e"," ","T","r","a","t","a",
    "k","a","?">>

Q_harmony ==
  <<"i","n","n","e","r"," ","h","a","r","m","o","n","y">>

Q_treat_crisis ==
  <<"C","a","n"," ","y","o","u"," ","t","r","e","a","t"," ","m","y"," ","c","r","i","s","i","s",
    "?">>

\* Texts the completion service may return.
R_cited ==
  <<"P","r","a","c","t","i","c","e"," ","T","r","a","t","a","k","a"," ","[","S","o","u","r","c",
    "e",":"," ","Y","o","g","a"," ","G","u","i","d","e",","," ","p","a","g","e"," ","4","2","]",
    ".">>

R_plain ==
  <<"J","u","s","t"," ","b","r","e","a","t","h","e",".">>

R_medical ==
  <<"T","h","i","s"," ","w","i","l","l"," ","c","u","r","e"," ","y","o","u"," ","[","S","o","u",
    "r","c","e",":"," ","S","a","f","e","t","y"," ","M","a","n","u","a","l",","," ","p","a","g",
    "e"," ","1","0","]">>

\* Guardrails.DISCLAIMERS (non-ASCII characters by code point).
DISCLAIMER_medical ==
  <<"U+26A0","U+FE0F"," ","T","h","i","s"," ","i","s"," ","n","o","t"," ","m","e","d","i","c",
    "a","l"," ","a","d","v","i","c","e","."," ","C","o","n","s","u","l","t"," ","a"," ","h","e",
    "a","l","t","h","c","a","r","e"," ","p","r","o","f","e","s","s","i","o","n","a","l"," ","f",
    "o","r"," ","m","e","d","i","c","a","l"," ","c","o","n","c","e","r","n","s",".">>

DISCLAIMER_spiritual ==
  <<"U+1F64F"," ","T","h","i","s"," ","g","u","i","d","a","n","c","e"," ","i","s"," ","b","a",
    "s","e","d"," ","o","n"," ","t","r","a","d","i","t","i","o","n","a","l"," ","t","e","a","c",
    "h","i","n","g","s","."," ","I","n","d","i","v","i","d","u","a","l"," ","e","x","p","e","r",
    "i","e","n","c","e","s"," ","m","a","y"," ","v","a","r","y",".">>

DISCLAIMER_safety ==
  <<"U+26A0","U+FE0F"," ","I","f"," ","y","o","u"," ","e","x","p","e","r","i","e","n","c","e",
    " ","d","i","s","c","o","m","f","o","r","t",","," ","d","i","z","z","i","n","e","s","s",",",
    " ","o","r"," ","d","i","s","t","r","e","s","s",","," ","s","t","o","p"," ","t","h","e"," ",
    "p","r","a","c","t","i","c","e"," ","a","n","d"," ","s","e","e","k"," ","g","u","i","d","a",
    "n","c","e",".">>

\* Chunks a streamed completion may consist of.
K_practice ==
  <<"P","r","a","c","t","i","c","e"," ","T","r","a","t","a","k","a"," ">>

K_source ==
  <<"[","S","o","u","r","c","e",":"," ","Y","o","g","a"," ","G","u","i","d","e",","," ","p","a",
    "g","e"," ","4","2","]">>

K_cure ==
  <<" ","t","o"," ","c","u","r","e"," ","s","t","r","e","s","s",".">>

\* File names of uploads.
F_upper ==
  <<"Y","o","g","a"," ","A",".","p","d","f">>

F_lower ==
  <<"y","o","g","a","_","a",".","P","D","F">>

F_text ==
  <<"n","o","t","e","s",".","t","x","t">>

\* The suffix ingest accepts.
DotPdf ==
  <<".","p","d","f">>

\* Network location and paths of the URLs.
N_site ==
  <<"Y","o","g","a",".","i","o">>

P_upper ==
  <<"/","A">>

P_lower ==
  <<"/","a">>

Digits ==
  <<"0","1","2","3","4","5","6","7","8","9">>

\* Texts the completion service may return for a rewrite.
W_padded ==
  <<" ","a","j","n","a"," ","f","o","c","u","s"," ","\n">>

W_blank ==
  <<" "," ">>

Uppers ==
  <<"A","B","C","D","E","F","G","H","I","J","K","L","M",
    "N","O","P","Q","R","S","T","U","V","W","X","Y","Z">>

Lowers ==
  <<"a","b","c","d","e","f","g","h","i","j","k","l","m",
    "n","o","p","q","r","s","t","u","v","w","x","y","z">>

UpperSet == {Uppers[i] : i \in 1..Len(Uppers)}

LowerOf == [c \in UpperSet |-> Lowers[CHOOSE i \in 1..Len(Uppers) : Uppers[i] = c]]

\* str.lower on one character.
LowerChar(c) == IF c \in UpperSet THEN LowerOf[c] ELSE c

\* str.lower
Lower(s) == [i \in 1..Len(s) |-> LowerChar(s[i])]

\* Python's `kw in s` on strings.
Contains(s, kw) ==
  \E i \in 1..(Len(s) - Len(kw) + 1) :
    \A j \in 1..Len(kw) : s[i + j - 1] = kw[j]

\* any(keyword in s for keyword in kws)
AnyKeyword(kws, s) == \E k \in 1..Len(kws) : Contains(s, kws[k])

Whitespace == {" ", "\n", "\t", "\r"}

SetMin(S) == CHOOSE x \in S : \A y \in S : x <= y

SetMax(S) == CHOOSE x \in S : \A y \in S : y <= x

\* str.strip
Strip(s) ==
  LET keep == {i \in 1..Len(s) : s[i] \notin Whitespace}
  IN  IF keep = {} THEN <<>> ELSE SubSeq(s, SetMin(keep), SetMax(keep))

\* What the completion service may return for the generation prompt.
Responses == {R_cited, R_plain, R_medical}

\* The texts whose guardrail check and citations are tabulated.
KnownTexts == Responses \cup {APOLOGY, <<>>}

(***************************************************************************)
(* Guardrails (app/rag/guardrails.py)                                      *)
(***************************************************************************)

\* The queries callers send.
Queries == {Q_crisis, Q_diagnose, Q_trataka, Q_harmony, Q_treat_crisis}

\* check_query as it would be without lower-casing the query.
check_query_body_nolower(query) ==
  LET i1 == IF AnyKeyword(MEDICAL_KEYWORDS, query)
            THEN <<"medical_query">> ELSE <<>>
      i2 == IF AnyKeyword(emergency_keywords, query)
            THEN <<"emergency">> ELSE <<>>
      issues == i1 \o i2
  IN  [is_safe |-> Len(issues) = 0,
       issues |-> issues,
       requires_disclaimer |-> Len(issues) > 0]

\* Guardrails.check_query, computed on the text.
check_query_body(query) ==
  LET query_lower == Lower(query)
      i1 == IF AnyKeyword(MEDICAL_KEYWORDS, query_lower)
            THEN <<"medical_query">> ELSE <<>>
      i2 == IF AnyKeyword(emergency_keywords, query_lower)
            THEN <<"emergency">> ELSE <<>>
      issues == i1 \o i2
  IN  [is_safe |-> Len(issues) = 0,
       issues |-> issues,
       requires_disclaimer |-> Len(issues) > 0]

\* The results of check_query for the queries of Queries, tabulated once.
QueryCheckTable == [q \in Queries |-> check_query_body(q)]

\* Guardrails.check_query
check_query(query) ==
  IF query \in Queries THEN QueryCheckTable[query] ELSE check_query_body(query)

\* Guardrails.check_response, computed on the text.
check_response_body(response) ==
  LET response_lower == Lower(response)
      i1 == IF AnyKeyword(MEDICAL_KEYWORDS, response_lower)
            THEN <<"contains_medical_advice">> ELSE <<>>
      i2 == IF ~Contains(response_lower, SourceMarkerLower)
            THEN <<"missing_citations">> ELSE <<>>
      has_practice == AnyKeyword(practice_keywords, response_lower)
      has_warning == AnyKeyword(warning_words, response_lower)
      i3 == IF has_practice /\ ~has_warning
            THEN <<"missing_safety_warning">> ELSE <<>>
      issues == i1 \o i2 \o i3
  IN  [is_safe |-> Len(issues) = 0, issues |-> issues]

\* Guardrails.check_response; the results for the texts of KnownTexts are
\* tabulated once.
CheckResponseTable == [r \in KnownTexts |-> check_response_body(r)]

check_response(response) ==
  IF response \in KnownTexts THEN CheckResponseTable[response]
  ELSE check_response_body(response)

\* Guardrails.handle_emergency
handle_emergency == EMERGENCY_MESSAGE

\* `x in seq` for a Python list.
InSeq(x, seq) == \E i \in 1..Len(seq) : seq[i] = x

(***************************************************************************)
(* Citations (RAGChain.extract_citations)                                  *)
(***************************************************************************)

\* One attempt of the pattern \[Source:\s*([^,]+),\s*([^\]]+)\] at position i:
\* the literal marker, a non-empty run up to the first comma, then a
\* non-empty run up to the first closing bracket.
MatchAt(s, i) ==
  LET a == i + Len(SourceMarker)
      commas == {c \in a..Len(s) : s[c] = ","}
      c0 == SetMin(commas)
      closes == {r \in (c0 + 1)..Len(s) : s[r] = "]"}
      r0 == SetMin(closes)
  IN  IF /\ a - 1 <= Len(s)
         /\ s[i] = SourceMarker[1]
         /\ SubSeq(s, i, a - 1) = SourceMarker
         /\ commas # {}
         /\ c0 > a
         /\ closes # {}
         /\ r0 > c0 + 1
      THEN [ok |-> TRUE, g1 |-> SubSeq(s, a, c0 - 1),
            g2 |-> SubSeq(s, c0 + 1, r0 - 1), end |-> r0]
      ELSE [ok |-> FALSE, g1 |-> <<>>, g2 |-> <<>>, end |-> i]

RECURSIVE FindAll(_, _)
\* re.findall: the non-overlapping matches, scanning from position i; the
\* scan resumes after the end of each match.
FindAll(s, i) ==
  LET starts == {k \in i..Len(s) : MatchAt(s, k).ok}
  IN  IF starts = {} THEN <<>>
      ELSE LET m == MatchAt(s, SetMin(starts))
           IN  <<[title |-> Strip(m.g1), reference |-> Strip(m.g2)]>>
               \o FindAll(s, m.end + 1)

\* RAGChain.extract_citations; the results for the texts of KnownTexts are
\* tabulated once.
CitationTable == [r \in KnownTexts |-> FindAll(r, 1)]

extract_citations(response) ==
  IF response \in KnownTexts THEN CitationTable[response] ELSE FindAll(response, 1)

(***************************************************************************)
(* State                                                                   *)
(***************************************************************************)

\* POST /chat/graph and the RAG graph
VARIABLES
  gpc,          \* the graph node that runs next; "idle" outside an invoke
  gstate,       \* the GraphState of the running invoke
  gthread,      \* thread_id of the running invoke
  checkpoints,  \* MemorySaver: thread_id -> last saved GraphState
  loopbacks,    \* corrective loop-backs taken by the running invoke
  invokes,      \* number of /chat/graph requests served so far
  graphReq,     \* messages of the last /chat/graph request
  resumed,      \* the running invoke started from a saved checkpoint
  graphResp,    \* HTTP answer of the last /chat/graph request
  gcalls        \* what the retriever and the completion service were asked
                \* and how they answered during the running invoke

graphVars ==
  <<gpc, gstate, gthread, checkpoints, loopbacks, invokes, graphReq, resumed,
    graphResp, gcalls>>

\* POST /chat
VARIABLES
  chatPc,         \* "idle", or the position of the SSE generator
  chatReq,        \* the last /chat request
  chatResp,       \* HTTP answer of the last /chat request
  full_response,  \* text accumulated by the request
  frames,         \* SSE frames sent for the request
  produced,       \* chunks the chain has yielded for the request, in order
  chainCalls,     \* calls of rag_chain.invoke made for the request
  chats           \* number of /chat requests served so far

chatVars ==
  <<chatPc, chatReq, chatResp, full_response, frames, produced,
    chainCalls, chats>>

\* Ingestion
VARIABLES
  index,       \* the search index: a set of chunk records
  blobs,       \* the blob container
  tasks,       \* the task queue and result backend; job_id is the position
  wjob,        \* job_id of the task the worker runs; 0 when it is idle
  wpc,         \* position of the worker inside the task
  run,         \* locals of the pipeline run in progress
  results,     \* results list of process_urls
  urlLog,      \* steps process_urls has performed, per URL position
  upserts,     \* upsert_documents calls made so far and how each ended
  ingests,     \* number of POST /ingest requests served so far
  ingestReq,   \* the last request to an ingestion endpoint
  ingestResp   \* HTTP answer of the last POST /ingest request

\* POST /clear, GET /documents/{doc_id}/status and GET /jobs/{job_id}
VARIABLES
  index_exists,  \* the search service holds the index
  clears,        \* number of POST /clear requests served so far
  clearResp,     \* answer of the last POST /clear request
  docResp,       \* answer of the last GET /documents/{doc_id}/status request
  jobResp        \* answer of the last GET /jobs/{job_id} request

opsVars == <<index_exists, clears, clearResp, docResp, jobResp>>

ingestVars ==
  <<index, blobs, tasks, wjob, wpc, run, results, urlLog,
    upserts, ingests, ingestReq, ingestResp, opsVars>>

\* Guardrails.check_query applied to one query
VARIABLES
  guardQuery,  \* the query handed to check_query
  guardCheck   \* what check_query returned for it

guardVars == <<guardQuery, guardCheck>>

\* Two pipeline runs for one doc_id that overlap, and the retrieval of the
\* chat side on the same index
VARIABLES
  runs,        \* per run: its position and the version it determined
  retrieval    \* the last call of the retriever and what it returned

\* One call of a function decorated with tenacity's retry
VARIABLES
  call,        \* the call in progress: the function, the attempts made
  callLog      \* the calls that have ended, oldest first

retryVars == <<call, callLog>>

caseVars == <<runs, retrieval, retryVars>>

vars == <<graphVars, chatVars, ingestVars, guardVars, caseVars>>

(***************************************************************************)
(* Bounds and enumerated inputs                                            *)
(***************************************************************************)

\* Longest message list of a chat request.
MaxMsgs == 2

\* The loop-back counter stops counting here.
MaxCounted == 3

CountUp(n) == IF n < MaxCounted THEN n + 1 ELSE n

\* Number of /chat/graph requests served in one behaviour.
MaxInvokes == 2

GraphQueries == {Q_trataka}

\* Thread ids a caller may name; a request without one gets a generated id.
Threads == {"t1"}

NoThread == "none"

Generated == "generated"

\* Retrieved documents: content prefix (the first 100 characters) and rest.
DocA1 == [prefix |-> "a", rest |-> 1]

DocA2 == [prefix |-> "a", rest |-> 2]

DocB1 == [prefix |-> "b", rest |-> 1]

\* What one retrieve_by_layer call may return (top_k = 2).
LayerResults == {<<>>, <<DocA1, DocA2>>, <<DocA1, DocB1>>}

\* What the completion service may return for the rewrite prompt.
RewriteOutputs == {W_padded, W_blank}

\* The messages of a request: user messages carry a query, the assistant
\* message an earlier answer.
Messages ==
  [role : {"user"}, content : GraphQueries]
    \cup [role : {"assistant"}, content : {R_plain}]

MessageLists == UNION {[1..n -> Messages] : n \in 0..MaxMsgs}

(***************************************************************************)
(* Absent values                                                           *)
(***************************************************************************)

NoState == [absent |-> TRUE]

NoResp == [status |-> 0]

(***************************************************************************)
(* The stateful RAG graph (app/rag/graph.py)                               *)
(***************************************************************************)

\* RAGGraph.max_retries
max_retries == 2

\* dict.get(key, default)
Get(state, key, default) ==
  IF key \in DOMAIN state THEN state[key] ELSE default

\* The seed state built by RAGGraph.invoke.
initial_state(query) ==
  [query |-> query, rewritten_query |-> <<>>, documents |-> <<>>,
   response |-> <<>>, citations |-> <<>>, needs_retry |-> FALSE,
   retry_count |-> 0, messages |-> <<>>]

\* GraphState channels: every key keeps the last value written, except
\* messages, whose reducer is operator.add.
ApplyWrites(old, out) ==
  [k \in DOMAIN out |->
     IF k = "messages" /\ k \in DOMAIN old
     THEN old[k] \o out[k] ELSE out[k]]

\* graph.ainvoke(initial_state, config): the input is written over the
\* channels restored from the thread's checkpoint.
StartState(saved, query) ==
  IF saved = NoState THEN initial_state(query)
  ELSE ApplyWrites(saved, initial_state(query))

\* content_hash de-duplication of _retrieve_node: keep the first document of
\* every content prefix.
Dedup(all_docs) ==
  LET keepIdx == {i \in 1..Len(all_docs) :
                    \A j \in 1..(i - 1) : all_docs[j].prefix # all_docs[i].prefix}
      F[n \in 0..Len(all_docs)] ==
        IF n = 0 THEN <<>>
        ELSE IF n \in keepIdx THEN Append(F[n - 1], all_docs[n]) ELSE F[n - 1]
  IN  F[Len(all_docs)]

\* _rewrite_query_node, the completion returned `rewritten`.
rewrite_ok(state, rewritten) ==
  [state EXCEPT !.rewritten_query = Strip(rewritten),
                !.retry_count = Get(state, "retry_count", 0)]

\* _rewrite_query_node, the completion raised.
rewrite_failed(state) == [state EXCEPT !.rewritten_query = state.query]

\* _retrieve_node, the four layer retrievals returned: all_docs is
\* canonical_docs + safety_docs + practices_docs + qa_docs.
retrieve_ok(state, all_docs) == [state EXCEPT !.documents = Dedup(all_docs)]

\* The concatenations the four layer retrievals can produce.
AllDocLists ==
  {c \o s \o p \o q :
     c \in LayerResults, s \in LayerResults, p \in LayerResults, q \in LayerResults}

\* _retrieve_node as it would be if a failed retrieval kept the documents of
\* the retrieval before it.
retrieve_failed_keep(state) == state

\* _retrieve_node, a retrieval raised.
retrieve_failed(state) == [state EXCEPT !.documents = <<>>]

\* _check_retrieval_node without the retry budget in needs_retry.
check_retrieval_node_nobudget(state) ==
  LET documents == Get(state, "documents", <<>>)
      retry_count == Get(state, "retry_count", 0)
      needs_retry == Len(documents) < 2
  IN  [state EXCEPT !.needs_retry = needs_retry,
                    !.retry_count = IF needs_retry THEN retry_count + 1
                                    ELSE retry_count]

\* _check_retrieval_node
check_retrieval_node(state) ==
  LET documents == Get(state, "documents", <<>>)
      retry_count == Get(state, "retry_count", 0)
      needs_retry == Len(documents) < 2 /\ retry_count < max_retries
  IN  [state EXCEPT !.needs_retry = needs_retry,
                    !.retry_count = IF needs_retry THEN retry_count + 1
                                    ELSE retry_count]

\* _should_retry_retrieval as it would be if it looked at the documents
\* instead of the flag.
should_retry_retrieval_by_documents(state) ==
  IF Len(Get(state, "documents", <<>>)) < 2 THEN "retry" ELSE "continue"

\* _should_retry_retrieval
should_retry_retrieval(state) ==
  IF Get(state, "needs_retry", FALSE) THEN "retry" ELSE "continue"

\* _generate_node, the completion returned `response`.
generate_ok(state, response) == [state EXCEPT !.response = response]

\* _generate_node as it would be if a failed completion left the response
\* as it was.
generate_failed_keep(state) == state

\* _generate_node, the completion raised.
generate_failed(state) == [state EXCEPT !.response = APOLOGY]

\* _check_response_node that does not count the retry it asks for.
check_response_node_nocount(state) ==
  LET response == Get(state, "response", <<>>)
      retry_count == Get(state, "retry_count", 0)
      check == check_response(response)
      has_critical_issue == \/ InSeq("missing_citations", check.issues)
                            \/ InSeq("contains_medical_advice", check.issues)
      needs_retry == has_critical_issue /\ retry_count < max_retries
  IN  [state EXCEPT !.needs_retry = needs_retry]

\* _check_response_node as it would be if every issue of the guardrail check
\* were critical.
check_response_node_any_issue(state) ==
  LET response == Get(state, "response", <<>>)
      retry_count == Get(state, "retry_count", 0)
      check == check_response(response)
      needs_retry == Len(check.issues) > 0 /\ retry_count < max_retries
  IN  [state EXCEPT !.needs_retry = needs_retry,
                    !.retry_count = IF needs_retry THEN retry_count + 1
                                    ELSE retry_count]

\* _check_response_node
check_response_node(state) ==
  LET response == Get(state, "response", <<>>)
      retry_count == Get(state, "retry_count", 0)
      check == check_response(response)
      has_critical_issue == \/ InSeq("missing_citations", check.issues)
                            \/ InSeq("contains_medical_advice", check.issues)
      needs_retry == has_critical_issue /\ retry_count < max_retries
  IN  [state EXCEPT !.needs_retry = needs_retry,
                    !.retry_count = IF needs_retry THEN retry_count + 1
                                    ELSE retry_count]

\* _should_retry_generation
should_retry_generation(state) ==
  IF Get(state, "needs_retry", FALSE) THEN "retry" ELSE "continue"

\* _add_citations_node
add_citations_node(state) ==
  [state EXCEPT !.citations = extract_citations(Get(state, "response", <<>>))]

\* The edges of _build_graph.
EdgeAfterCheckRetrieval(branch) ==
  IF branch = "retry" THEN "rewrite_query" ELSE "generate"

EdgeAfterCheckResponse(branch) ==
  IF branch = "retry" THEN "retrieve" ELSE "add_citations"

\* MemorySaver.put. The checkpoint of a generated thread id is not kept: no
\* later request can name that id.
SaveCheckpoint(thread_id, state) ==
  IF thread_id \in Threads
  THEN [checkpoints EXCEPT ![thread_id] = state] ELSE checkpoints

\* MemorySaver.get
LoadCheckpoint(thread_id) ==
  IF thread_id \in Threads THEN checkpoints[thread_id] ELSE NoState

\* One graph step: the node's output is merged into the channels and the
\* checkpoint of the thread is saved.
Commit(out, next) ==
  LET new == ApplyWrites(gstate, out)
  IN  /\ gstate' = new
      /\ checkpoints' = SaveCheckpoint(gthread, new)
      /\ gpc' = next

\* user_messages of chat_with_graph.
UserMessages(messages) ==
  SelectSeq(messages, LAMBDA m : m.role = "user")

\* raise HTTPException(status_code=400, detail="No user message found")
NoUserMessage == [exc |-> "HTTPException", status |-> 400]

\* The `except Exception` clause of chat_with_graph: whatever was raised in
\* the try block, an HTTPException included, is answered with status 500.
graph_except(e) == [status |-> 500]

\* No external call was made yet by the running invoke.
NoCalls ==
  [retrieved |-> FALSE, query |-> <<>>, last_failed |-> FALSE,
   completions_failed |-> TRUE, docs_enough |-> TRUE]

\* The query _retrieve_node hands to retrieve_by_layer.
retrieve_query(state) == Get(state, "rewritten_query", state.query)

\* POST /chat/graph (chat_with_graph) up to the call of rag_graph.invoke.
ChatWithGraph(messages, request_thread_id) ==
  /\ gpc = "idle"
  /\ invokes < MaxInvokes
  /\ invokes' = invokes + 1
  /\ graphReq' = messages
  /\ LET user_messages == UserMessages(messages)
     IN  IF Len(user_messages) = 0
         THEN /\ graphResp' = graph_except(NoUserMessage)
              /\ UNCHANGED <<gpc, gstate, gthread, checkpoints, loopbacks,
                             resumed, gcalls>>
         ELSE LET thread_id == IF request_thread_id = NoThread
                                 THEN Generated ELSE request_thread_id
                  query == user_messages[Len(user_messages)].content
                  st == StartState(LoadCheckpoint(thread_id), query)
              IN  /\ gstate' = st
                  /\ gthread' = thread_id
                  /\ checkpoints' = SaveCheckpoint(thread_id, st)
                  /\ gpc' = "rewrite_query"
                  /\ loopbacks' = 0
                  /\ resumed' = (LoadCheckpoint(thread_id) # NoState)
                  /\ graphResp' = NoResp
                  /\ gcalls' = NoCalls
  /\ UNCHANGED <<chatVars, ingestVars, guardVars, caseVars>>

RewriteQueryNode ==
  /\ gpc = "rewrite_query"
  /\ \/ /\ \E rewritten \in RewriteOutputs :
             Commit(rewrite_ok(gstate, rewritten), "retrieve")
        /\ gcalls' = [gcalls EXCEPT !.last_failed = FALSE,
                                    !.completions_failed = FALSE]
     \/ /\ Commit(rewrite_failed(gstate), "retrieve")
        /\ gcalls' = [gcalls EXCEPT !.last_failed = TRUE]
  /\ UNCHANGED <<gthread, loopbacks, invokes, graphReq, resumed, graphResp>>
  /\ UNCHANGED <<chatVars, ingestVars, guardVars, caseVars>>

RetrieveNode ==
  /\ gpc = "retrieve"
  /\ \/ \E all_docs \in AllDocLists :
          /\ Commit(retrieve_ok(gstate, all_docs), "check_retrieval")
          /\ gcalls' = [gcalls EXCEPT
                          !.retrieved = TRUE,
                          !.query = retrieve_query(gstate),
                          !.last_failed = FALSE,
                          !.docs_enough = @ /\ Len(Dedup(all_docs)) >= 2]
     \/ /\ Commit(retrieve_failed(gstate), "check_retrieval")
        /\ gcalls' = [gcalls EXCEPT !.retrieved = TRUE,
                                    !.query = retrieve_query(gstate),
                                    !.last_failed = TRUE,
                                    !.docs_enough = FALSE]
  /\ UNCHANGED <<gthread, loopbacks, invokes, graphReq, resumed, graphResp>>
  /\ UNCHANGED <<chatVars, ingestVars, guardVars, caseVars>>

CheckRetrievalNode ==
  /\ gpc = "check_retrieval"
  /\ LET out == check_retrieval_node(gstate)
         branch == should_retry_retrieval(ApplyWrites(gstate, out))
     IN  /\ Commit(out, EdgeAfterCheckRetrieval(branch))
         /\ loopbacks' = IF branch = "retry" THEN CountUp(loopbacks) ELSE loopbacks
  /\ UNCHANGED <<gthread, invokes, graphReq, resumed, graphResp, gcalls>>
  /\ UNCHANGED <<chatVars, ingestVars, guardVars, caseVars>>

GenerateNode ==
  /\ gpc = "generate"
  /\ \/ /\ \E response \in Responses :
             Commit(generate_ok(gstate, response), "check_response")
        /\ gcalls' = [gcalls EXCEPT !.last_failed = FALSE,
                                    !.completions_failed = FALSE]
     \/ /\ Commit(generate_failed(gstate), "check_response")
        /\ gcalls' = [gcalls EXCEPT !.last_failed = TRUE]
  /\ UNCHANGED <<gthread, loopbacks, invokes, graphReq, resumed, graphResp>>
  /\ UNCHANGED <<chatVars, ingestVars, guardVars, caseVars>>

CheckResponseNode ==
  /\ gpc = "check_response"
  /\ LET out == check_response_node(gstate)
         branch == should_retry_generation(ApplyWrites(gstate, out))
     IN  /\ Commit(out, EdgeAfterCheckResponse(branch))
         /\ loopbacks' = IF branch = "retry" THEN CountUp(loopbacks) ELSE loopbacks
  /\ UNCHANGED <<gthread, invokes, graphReq, resumed, graphResp, gcalls>>
  /\ UNCHANGED <<chatVars, ingestVars, guardVars, caseVars>>

AddCitationsNode ==
  /\ gpc = "add_citations"
  /\ Commit(add_citations_node(gstate), "END")
  /\ UNCHANGED <<gthread, loopbacks, invokes, graphReq, resumed, graphResp,
                 gcalls>>
  /\ UNCHANGED <<chatVars, ingestVars, guardVars, caseVars>>

\* chat_with_graph after rag_graph.invoke returned the terminal state.
GraphReturn ==
  /\ gpc = "END"
  /\ graphResp' = [status |-> 200,
                   response |-> Get(gstate, "response", <<>>),
                   citations |-> Get(gstate, "citations", <<>>),
                   thread_id |-> gthread,
                   retry_count |-> Get(gstate, "retry_count", 0)]
  /\ gpc' = "idle"
  /\ UNCHANGED <<gstate, gthread, checkpoints, loopbacks, invokes, graphReq,
                 resumed, gcalls>>
  /\ UNCHANGED <<chatVars, ingestVars, guardVars, caseVars>>

InitGraph ==
  /\ gpc = "idle"
  /\ gstate = NoState
  /\ gthread = "t1"
  /\ checkpoints = [t \in Threads |-> NoState]
  /\ loopbacks = 0
  /\ invokes = 0
  /\ graphReq = <<>>
  /\ resumed = FALSE
  /\ graphResp = NoResp
  /\ gcalls = NoCalls

(***************************************************************************)
(* POST /chat (app/api/routes_chat.py)                                     *)
(***************************************************************************)

\* Number of /chat requests served in one behaviour.
MaxChats == 2

\* Longest streamed completion, in chunks.
MaxChunks == 2

ChatQueries == {Q_crisis, Q_diagnose, Q_trataka, Q_treat_crisis}

ChatMessages ==
  [role : {"user"}, content : ChatQueries]
    \cup [role : {"assistant"}, content : {R_plain}]

ChatMessageLists == UNION {[1..n -> ChatMessages] : n \in 0..MaxMsgs}

\* Chunks of a streamed completion.
Chunks == {K_practice, K_source, K_cure}

NoReq == [messages |-> <<>>, stream |-> FALSE, none |-> TRUE]

\* Guardrails.DISCLAIMERS
DISCLAIMERS ==
  [medical |-> DISCLAIMER_medical, spiritual |-> DISCLAIMER_spiritual,
   safety |-> DISCLAIMER_safety]

RECURSIVE JoinLines(_)
\* "\n".join(lines)
JoinLines(lines) ==
  IF Len(lines) = 0 THEN <<>>
  ELSE IF Len(lines) = 1 THEN lines[1]
  ELSE lines[1] \o <<"\n">> \o JoinLines(Tail(lines))

\* add_disclaimers as it would be if it returned the response as it is.
add_disclaimers_none(response, disclaimer_types) == response

\* Guardrails.add_disclaimers
add_disclaimers(response, disclaimer_types) ==
  LET known == SelectSeq(disclaimer_types, LAMBDA t : t \in DOMAIN DISCLAIMERS)
      disclaimers == [i \in 1..Len(known) |-> DISCLAIMERS[known[i]]]
  IN  IF Len(disclaimers) > 0
      THEN response \o <<"\n", "\n">> \o JoinLines(disclaimers)
      ELSE response

\* The disclaimer step of chat: disclaimers are added when the query check
\* requires one, and the only type ever requested is "medical".
with_disclaimers(query_check, response) ==
  IF Get(query_check, "requires_disclaimer", FALSE)
  THEN LET disclaimer_types ==
             IF InSeq("medical_query", Get(query_check, "issues", <<>>))
             THEN <<"medical">> ELSE <<>>
       IN  add_disclaimers(response, disclaimer_types)
  ELSE response

\* The `except Exception` clause of chat: whatever was raised in the try
\* block, an HTTPException included, is answered with status 500.
chat_except(e) == [status |-> 500]

\* The branch order of chat with the stream test before the emergency test.
chat_branch_stream_first(query_check, stream) ==
  IF stream THEN "stream"
  ELSE IF InSeq("emergency", Get(query_check, "issues", <<>>)) THEN "emergency"
  ELSE "complete"

\* The branch chat takes for a query: the emergency short-circuit comes
\* before the stream test.
chat_branch(query_check, stream) ==
  IF InSeq("emergency", Get(query_check, "issues", <<>>)) THEN "emergency"
  ELSE IF stream THEN "stream"
  ELSE "complete"

\* The query of a request: the content of its last user message.
LastUserQuery(messages) ==
  LET user_messages == UserMessages(messages)
  IN  user_messages[Len(user_messages)].content

\* The chain raises instead of returning a completion.
Failed == [raised |-> TRUE]

\* What rag_chain.invoke gives a non-streaming request.
Completions == {[raised |-> FALSE, text |-> r] : r \in Responses} \cup {Failed}

\* POST /chat (chat): the handler up to its return. In the non-streaming
\* branch the chain returns a text or raises (Failed).
Chat(messages, stream, completion) ==
  /\ chatPc = "idle"
  /\ chats < MaxChats
  /\ chats' = chats + 1
  /\ chatReq' = [messages |-> messages, stream |-> stream]
  /\ frames' = <<>>
  /\ produced' = <<>>
  /\ IF Len(UserMessages(messages)) = 0
     THEN /\ chatResp' = chat_except(NoUserMessage)
          /\ chatPc' = "idle"
          /\ full_response' = <<>>
          /\ chainCalls' = 0
     ELSE LET query == LastUserQuery(messages)
              query_check == check_query(query)
              branch == chat_branch(query_check, stream)
          IN  CASE branch = "emergency" ->
                     /\ chatResp' = [status |-> 200, kind |-> "json",
                                     response |-> handle_emergency,
                                     citations |-> <<>>]
                     /\ chatPc' = "idle"
                     /\ full_response' = <<>>
                     /\ chainCalls' = 0
                [] branch = "stream" ->
                     /\ chatResp' = [status |-> 200, kind |-> "stream"]
                     /\ chatPc' = "stream_start"
                     /\ full_response' = <<>>
                     /\ chainCalls' = 0
                [] OTHER ->
                     /\ chainCalls' = 1
                     /\ chatPc' = "idle"
                     /\ IF completion.raised
                        THEN /\ chatResp' = chat_except("chain")
                             /\ full_response' = <<>>
                        ELSE LET full == with_disclaimers(query_check, completion.text)
                             IN  /\ full_response' = full
                                 /\ chatResp' =
                                      [status |-> 200, kind |-> "json",
                                       response |-> full,
                                       citations |-> extract_citations(full)]
  /\ UNCHANGED <<graphVars, ingestVars, guardVars, caseVars>>

\* generate(): the generator starts and calls rag_chain.invoke.
StreamStart ==
  /\ chatPc = "stream_start"
  /\ chainCalls' = chainCalls + 1
  /\ chatPc' = "streaming"
  /\ UNCHANGED <<chatReq, chatResp, full_response, frames, produced, chats>>
  /\ UNCHANGED <<graphVars, ingestVars, guardVars, caseVars>>

\* generate(): the chain yields one more chunk, which is sent at once.
StreamChunk(chunk) ==
  /\ chatPc = "streaming"
  /\ Len(frames) < MaxChunks
  /\ full_response' = full_response \o chunk
  /\ produced' = Append(produced, chunk)
  /\ frames' = Append(frames, [type |-> "content", chunk |-> chunk])
  /\ UNCHANGED <<chatPc, chatReq, chatResp, chainCalls, chats>>
  /\ UNCHANGED <<graphVars, ingestVars, guardVars, caseVars>>

\* generate(): the chain is exhausted; the citations frame and [DONE] follow.
StreamEnd ==
  /\ chatPc = "streaming"
  /\ LET query_check == check_query(LastUserQuery(chatReq.messages))
         full == with_disclaimers(query_check, full_response)
     IN  /\ full_response' = full
         /\ frames' = frames \o
              <<[type |-> "citations", citations |-> extract_citations(full)],
                [type |-> "done"]>>
  /\ chatPc' = "idle"
  /\ UNCHANGED <<chatReq, chatResp, produced, chainCalls, chats>>
  /\ UNCHANGED <<graphVars, ingestVars, guardVars, caseVars>>

\* generate() as it would be if the except clause fell through to the
\* [DONE] signal.
StreamError_then_done ==
  /\ chatPc = "streaming"
  /\ frames' = frames \o <<[type |-> "error"], [type |-> "done"]>>
  /\ chatPc' = "idle"
  /\ UNCHANGED <<chatReq, chatResp, full_response, produced, chainCalls, chats>>
  /\ UNCHANGED <<graphVars, ingestVars, guardVars, caseVars>>

\* generate(): the chain raises; one error frame ends the stream.
StreamError ==
  /\ chatPc = "streaming"
  /\ frames' = Append(frames, [type |-> "error"])
  /\ chatPc' = "idle"
  /\ UNCHANGED <<chatReq, chatResp, full_response, produced, chainCalls, chats>>
  /\ UNCHANGED <<graphVars, ingestVars, guardVars, caseVars>>

InitChat ==
  /\ chatPc = "idle"
  /\ chatReq = NoReq
  /\ chatResp = NoResp
  /\ full_response = <<>>
  /\ frames = <<>>
  /\ produced = <<>>
  /\ chainCalls = 0
  /\ chats = 0

NextChat ==
  \/ \E messages \in ChatMessageLists, stream \in BOOLEAN :
       \E completion \in (IF stream THEN {Failed} ELSE Completions) :
         Chat(messages, stream, completion)
  \/ StreamStart
  \/ \E chunk \in Chunks : StreamChunk(chunk)
  \/ StreamEnd
  \/ StreamError

(***************************************************************************)
(* Ingestion: POST /ingest, the task queue, the PDF and web pipelines and  *)
(* the vector index                                                        *)
(***************************************************************************)

\* Number of POST /ingest requests served in one behaviour.
MaxJobs == 2

\* Most chunks one document is split into.
MaxDocChunks == 1

\* Most URLs in one URL ingestion request.
MaxUrls == 2

\* Number of POST /clear requests served in one behaviour.
MaxClears == 1

FileNames == {F_upper, F_lower, F_text}

Urls == {[netloc |-> N_site, path |-> P_upper], [netloc |-> N_site, path |-> P_lower]}

\* The URL lists of the requests: the first n entries of a feed that
\* alternates between the two URLs.
UrlFeed(i) ==
  IF i % 2 = 1 THEN [netloc |-> N_site, path |-> P_upper]
  ELSE [netloc |-> N_site, path |-> P_lower]

UrlLists == {[i \in 1..n |-> UrlFeed(i)] : n \in 0..MaxUrls}

NoFile == [absent |-> TRUE]

\* The uploads a request may carry.
Files == [filename : FileNames, oversized : BOOLEAN]

NoUrls == [absent |-> TRUE]

\* The urls form field: text that is not JSON, JSON that is not a list, or a
\* JSON list.
UrlFields ==
  {[json |-> "invalid"], [json |-> "notlist"]}
    \cup {[json |-> "list", list |-> l] : l \in UrlLists}

NoRun == [kind |-> "none"]

NoResult == [status |-> "none"]

\* str.endswith
EndsWith(s, suffix) ==
  /\ Len(s) >= Len(suffix)
  /\ SubSeq(s, Len(s) - Len(suffix) + 1, Len(s)) = suffix

DigitSet == {Digits[i] : i \in 1..Len(Digits)}

LowerSet == {Lowers[i] : i \in 1..Len(Lowers)}

\* PDFPipeline._generate_doc_id
pdf_generate_doc_id(filename) ==
  LET dots == {i \in 1..Len(filename) : filename[i] = "."}
      stem == IF dots = {} THEN filename
              ELSE SubSeq(filename, 1, SetMax(dots) - 1)
      keep(c) == IF c \in UpperSet \cup LowerSet \cup DigitSet \cup {"_", "-"}
                 THEN c ELSE "_"
      normalized == [i \in 1..Len(stem) |-> keep(stem[i])]
  IN  Lower(normalized)

\* WebPipeline._generate_doc_id
web_generate_doc_id(url) ==
  LET under(c) == IF c \in {"/", "."} THEN "_" ELSE c
      joined == url.netloc \o url.path
      replaced == [i \in 1..Len(joined) |-> under(joined[i])]
  IN  Lower(replaced)

\* The records of a doc_id in the index.
RecordsOf(idx, doc_id) == {r \in idx : r.doc_id = doc_id}

\* _get_next_version when the query answers: the highest stored version of
\* the doc_id plus 1, or 1 when there is none.
next_version(idx, doc_id) ==
  IF RecordsOf(idx, doc_id) = {} THEN 1
  ELSE SetMax({r.version : r \in RecordsOf(idx, doc_id)}) + 1

\* _get_next_version when the query raises.
next_version_on_error == 1

\* VectorStore._mark_old_versions when search and merge succeed.
mark_old_versions(idx, doc_id) ==
  {IF r.doc_id = doc_id /\ r.is_latest THEN [r EXCEPT !.is_latest = FALSE] ELSE r :
     r \in idx}

\* The search documents upsert_documents prepares, one per chunk.
search_documents(doc_id, version, nchunks, uuids) ==
  {[id |-> Append(uuids, i), doc_id |-> doc_id, version |-> version,
    is_latest |-> TRUE, chunk |-> i] : i \in 1..nchunks}

\* search_client.upload_documents as it would be if the upload took the
\* is_latest flag from the stored records of the doc_ids it writes.
upload_documents_exclusive(idx, docs) ==
  {IF r.doc_id \in {d.doc_id : d \in docs} /\ r.is_latest
   THEN [r EXCEPT !.is_latest = FALSE] ELSE r : r \in idx} \cup docs

\* The except clause of upsert_documents as it would be if it gave the
\* is_latest flag back to the stored records of the highest version.
upsert_documents_rollback(idx, doc_id) ==
  {IF r.doc_id = doc_id
      /\ r.version = SetMax({q.version : q \in RecordsOf(idx, doc_id)})
   THEN [r EXCEPT !.is_latest = TRUE] ELSE r : r \in idx}

\* The except clause of upsert_documents: the exception is logged and
\* raised again, the index is left as the failed call found it.
upsert_documents_except(idx, doc_id) == idx

\* search_client.upload_documents: the documents are added to the index; no
\* stored record is changed.
upload_documents(idx, docs) == idx \cup docs

\* A doc_id of a status request that closes the quoted literal of the filter
\* and continues it.
D_inject ==
  <<"x","'"," ","o","r"," ","d","o","c","_","i","d"," ","n","e"," ","'">>

\* The text between the two quotes of such a doc_id.
OrDocIdNe ==
  <<" ","o","r"," ","d","o","c","_","i","d"," ","n","e"," ">>

\* The filter f"doc_id eq '{doc_id}'" as the search service reads it: the
\* doc_id is pasted between the quotes unescaped, so a doc_id without a quote
\* gives an equality test, one of the form <a>' or doc_id ne '<b> gives a
\* disjunction, and any other quote leaves a text that is no filter.
doc_id_filter(doc_id) ==
  LET quotes == {i \in 1..Len(doc_id) : doc_id[i] = "'"}
  IN  IF quotes = {}
      THEN [kind |-> "eq", value |-> doc_id]
      ELSE IF Cardinality(quotes) = 2
              /\ SubSeq(doc_id, SetMin(quotes) + 1, SetMax(quotes) - 1) = OrDocIdNe
      THEN [kind |-> "eq_or_ne",
            value |-> SubSeq(doc_id, 1, SetMin(quotes) - 1),
            other |-> SubSeq(doc_id, SetMax(quotes) + 1, Len(doc_id))]
      ELSE [kind |-> "invalid"]

\* The records the filter f"doc_id eq '{doc_id}'" selects.
FilterRecords(idx, doc_id) ==
  LET f == doc_id_filter(doc_id)
  IN  IF f.kind = "eq" THEN {r \in idx : r.doc_id = f.value}
      ELSE {r \in idx : r.doc_id = f.value \/ r.doc_id # f.other}

\* The records f"doc_id eq '{doc_id}' and is_latest eq true" selects; `and`
\* binds tighter than `or`.
LatestFilterRecords(idx, doc_id) ==
  LET f == doc_id_filter(doc_id)
  IN  IF f.kind = "eq" THEN {r \in idx : r.doc_id = f.value /\ r.is_latest}
      ELSE {r \in idx : r.doc_id = f.value
                          \/ (r.doc_id # f.other /\ r.is_latest)}

\* VectorStore.check_document_ingested: the answers the call can give when
\* the search service answers; top=1 without an order picks any latest
\* record. A text that is no filter is refused by the service: no answer.
check_document_ingested(idx, doc_id) ==
  LET count_all == Cardinality(idx)
      count_for_id == Cardinality(FilterRecords(idx, doc_id))
      latest_list == LatestFilterRecords(idx, doc_id)
  IN  IF doc_id_filter(doc_id).kind = "invalid"
      THEN {}
      ELSE IF latest_list = {}
      THEN {[ingested |-> FALSE, doc_id |-> doc_id,
             total_docs_in_index |-> count_all,
             total_docs_for_id |-> count_for_id]}
      ELSE {[ingested |-> TRUE, doc_id |-> latest.doc_id,
             version |-> latest.version,
             total_docs_in_index |-> count_all,
             total_docs_for_id |-> count_for_id] : latest \in latest_list}

\* process_pdf_task re-raising what it caught.
process_pdf_task_reraise(filename, e) == [raised |-> TRUE, value |-> e]

\* The except clause of process_pdf_task.
process_pdf_task_except(filename, e) ==
  [raised |-> FALSE,
   value |-> [status |-> "error", filename |-> filename, error |-> e]]

\* The except clause of process_urls_task.
process_urls_task_except(e) ==
  [raised |-> FALSE, value |-> [status |-> "error", error |-> e]]

\* The except clause of PDFPipeline.process_pdf.
process_pdf_except(filename, e) ==
  [status |-> "error", filename |-> filename, error |-> e]

\* _process_single_url letting an exception escape.
process_single_url_reraise(url, e) == [escaped |-> TRUE, error |-> e]

\* The except clause of WebPipeline._process_single_url.
process_single_url_except(url, e) ==
  [status |-> "error", url |-> url, error |-> e]

\* _check_robots_txt answering False when the check fails.
check_robots_txt_deny_on_error(outcome) == outcome = "allowed"

\* WebPipeline._check_robots_txt: can_fetch, or True when the check raises.
check_robots_txt(outcome) ==
  IF outcome = "error" THEN TRUE ELSE outcome = "allowed"

\* How the queue backend records a finished task body.
celery_state(outcome) == IF outcome.raised THEN "FAILURE" ELSE "SUCCESS"

\* AsyncResult(job_id).state; an unknown id is PENDING.
task_state(job_id) ==
  IF job_id \in 1..Len(tasks) THEN tasks[job_id].state ELSE "PENDING"

\* status_map of get_job_status
status_map ==
  [PENDING |-> "queued", STARTED |-> "processing", SUCCESS |-> "completed",
   FAILURE |-> "failed", RETRY |-> "retrying", REVOKED |-> "cancelled"]

\* task_result.state.lower() for the queue states status_map does not name.
state_lower ==
  [RECEIVED |-> "received", REJECTED |-> "rejected", IGNORED |-> "ignored"]

\* get_job_status as it would be if it attached whatever the backend holds
\* for the task as its result.
get_job_status_any_result(job_id) ==
  LET state == task_state(job_id)
      job_status == IF state \in DOMAIN status_map THEN status_map[state]
                    ELSE state_lower[state]
  IN  [job_id |-> job_id, status |-> job_status,
       result |-> IF job_id \in 1..Len(tasks) THEN tasks[job_id].result
                  ELSE NoResult,
       error |-> IF state = "FAILURE" THEN tasks[job_id].result ELSE NoResult]

\* GET /jobs/{job_id} (get_job_status)
get_job_status(job_id) ==
  LET state == task_state(job_id)
      job_status == IF state \in DOMAIN status_map THEN status_map[state]
                    ELSE state_lower[state]
  IN  [job_id |-> job_id, status |-> job_status,
       result |-> IF state = "SUCCESS" THEN tasks[job_id].result ELSE NoResult,
       error |-> IF state = "FAILURE" THEN tasks[job_id].result ELSE NoResult]

\* No request has been made to an ingestion endpoint yet.
NoIngestReq == [endpoint |-> "none"]

\* BlobStorage.upload_file: a new, unique blob name for the file; the caller
\* and its request or job stand for the uuid in the name.
NewBlob(by, n, filename) == [by |-> by, n |-> n, filename |-> filename]

\* apply_async as it would be if the message were published twice.
Enqueue_twice(task) == tasks' = Append(Append(tasks, task), task)

\* apply_async(args, task_id=job_id)
Enqueue(task) == tasks' = Append(tasks, task)

\* POST /ingest as it would be if the blob were stored before the request
\* is validated.
Ingest_upload_first(file, urls, upload_ok, broker_ok) ==
  /\ ingests < MaxJobs
  /\ ingests' = ingests + 1
  /\ ingestReq' = [endpoint |-> "/ingest", file |-> file, urls |-> urls]
  /\ UNCHANGED <<index, wjob, wpc, run, results, urlLog, upserts>>
  /\ LET job_id == Len(tasks) + 1
         blob_name == NewBlob("ingest", ingests + 1, file.filename)
     IN  IF file # NoFile
         THEN /\ blobs' = blobs \cup {blob_name}
              /\ IF ~EndsWith(Lower(file.filename), DotPdf)
                 THEN /\ ingestResp' = [status |-> 400]
                      /\ UNCHANGED tasks
                 ELSE IF file.oversized
                 THEN /\ ingestResp' = [status |-> 413]
                      /\ UNCHANGED tasks
                 ELSE IF upload_ok /\ broker_ok
                 THEN /\ Enqueue([kind |-> "pdf", blob_name |-> blob_name,
                                  filename |-> file.filename,
                                  state |-> "PENDING",
                                  result |-> NoResult])
                      /\ ingestResp' = [status |-> 200, job_id |-> job_id,
                                        job_status |-> "queued"]
                 ELSE /\ ingestResp' = [status |-> 500]
                      /\ UNCHANGED tasks
         ELSE /\ UNCHANGED blobs
              /\ IF urls # NoUrls /\ urls.json = "list" /\ broker_ok
                    /\ Len(urls.list) > 0
                 THEN /\ Enqueue([kind |-> "urls", urls |-> urls.list,
                                  state |-> "PENDING", result |-> NoResult])
                      /\ ingestResp' = [status |-> 200, job_id |-> job_id,
                                        job_status |-> "queued"]
                 ELSE /\ ingestResp' =
                           [status |-> IF urls = NoUrls THEN 400
                                       ELSE IF urls.json = "notlist" THEN 500
                                       ELSE IF urls.json = "invalid" THEN 400
                                       ELSE IF Len(urls.list) = 0 THEN 400
                                       ELSE 500]
                      /\ UNCHANGED tasks
  /\ UNCHANGED <<graphVars, chatVars, opsVars, guardVars, caseVars>>

\* POST /ingest (ingest). upload_ok and broker_ok tell whether the blob
\* upload and the enqueueing succeed.
Ingest(file, urls, upload_ok, broker_ok) ==
  /\ ingests < MaxJobs
  /\ ingests' = ingests + 1
  /\ ingestReq' = [endpoint |-> "/ingest", file |-> file, urls |-> urls]
  /\ UNCHANGED <<index, wjob, wpc, run, results, urlLog, upserts>>
  /\ LET job_id == Len(tasks) + 1
         blob_name == NewBlob("ingest", ingests + 1, file.filename)
         queued == [status |-> 200, job_id |-> job_id, job_status |-> "queued"]
     IN  IF file # NoFile
         THEN IF ~EndsWith(Lower(file.filename), DotPdf)
              THEN /\ ingestResp' = [status |-> 400]
                   /\ UNCHANGED <<blobs, tasks>>
              ELSE IF file.oversized
              THEN /\ ingestResp' = [status |-> 413]
                   /\ UNCHANGED <<blobs, tasks>>
              ELSE IF ~upload_ok
              THEN /\ ingestResp' = [status |-> 500]
                   /\ UNCHANGED <<blobs, tasks>>
              ELSE /\ blobs' = blobs \cup {blob_name}
                   /\ IF broker_ok
                      THEN /\ Enqueue([kind |-> "pdf", blob_name |-> blob_name,
                                       filename |-> file.filename,
                                       state |-> "PENDING",
                                       result |-> NoResult])
                           /\ ingestResp' = queued
                      ELSE /\ ingestResp' = [status |-> 500]
                           /\ UNCHANGED tasks
         ELSE IF urls # NoUrls
         THEN /\ UNCHANGED blobs
              /\ IF urls.json = "invalid"
                 THEN /\ ingestResp' = [status |-> 400]
                      /\ UNCHANGED tasks
                 ELSE IF urls.json = "notlist"
                 THEN /\ ingestResp' = [status |-> 500]
                      /\ UNCHANGED tasks
                 ELSE IF Len(urls.list) = 0
                 THEN /\ ingestResp' = [status |-> 400]
                      /\ UNCHANGED tasks
                 ELSE IF broker_ok
                 THEN /\ Enqueue([kind |-> "urls", urls |-> urls.list,
                                  state |-> "PENDING", result |-> NoResult])
                      /\ ingestResp' = queued
                 ELSE /\ ingestResp' = [status |-> 500]
                      /\ UNCHANGED tasks
         ELSE /\ ingestResp' = [status |-> 400]
              /\ UNCHANGED <<blobs, tasks>>
  /\ UNCHANGED <<graphVars, chatVars, opsVars, guardVars, caseVars>>

\* str(url) of a validated HttpUrl: the host is lower-cased, the path kept.
http_url_str(url) == [netloc |-> Lower(url.netloc), path |-> url.path]

\* POST /ingest/urls (ingest_urls). A body that is not a JSON object with a
\* list of URLs is refused by the validation of URLIngestRequest before the
\* handler runs; broker_ok tells whether the enqueueing succeeds.
IngestUrls(body, broker_ok) ==
  /\ ingests < MaxJobs
  /\ ingests' = ingests + 1
  /\ ingestReq' = [endpoint |-> "/ingest/urls", file |-> NoFile, urls |-> body]
  /\ UNCHANGED <<index, blobs, wjob, wpc, run, results, urlLog, upserts>>
  /\ IF body.json # "list"
     THEN /\ ingestResp' = [status |-> 422]
          /\ UNCHANGED tasks
     ELSE LET job_id == Len(tasks) + 1
              url_list == [i \in 1..Len(body.list) |-> http_url_str(body.list[i])]
          IN  IF broker_ok
              THEN /\ Enqueue([kind |-> "urls", urls |-> url_list,
                               state |-> "PENDING", result |-> NoResult])
                   /\ ingestResp' = [status |-> 200, job_id |-> job_id,
                                     job_status |-> "queued"]
              ELSE /\ ingestResp' = [status |-> 500]
                   /\ UNCHANGED tasks
  /\ UNCHANGED <<graphVars, chatVars, opsVars, guardVars, caseVars>>

\* The oldest task the worker has not run yet.
NextPending ==
  SetMin({j \in 1..Len(tasks) : tasks[j].state = "PENDING"})

\* A worker takes the next task from the queue and enters its body.
TaskStart ==
  /\ wjob = 0
  /\ \E j \in 1..Len(tasks) : tasks[j].state = "PENDING"
  /\ wjob' = NextPending
  /\ wpc' = IF tasks[NextPending].kind = "pdf" THEN "pdf_download" ELSE "urls_start"
  /\ run' = NoRun
  /\ results' = <<>>
  /\ urlLog' = <<>>
  /\ UNCHANGED <<index, blobs, tasks, upserts, ingests, ingestReq,
                 ingestResp>>
  /\ UNCHANGED <<graphVars, chatVars, opsVars, guardVars, caseVars>>

\* The task body ends with `outcome`; the queue backend records it.
FinishTask(outcome) ==
  /\ tasks' = [tasks EXCEPT ![wjob].state = celery_state(outcome),
                            ![wjob].result = outcome.value]
  /\ wjob' = 0
  /\ wpc' = "idle"

\* The entries the step of the URL being processed adds to the log.
LogEntry(step) == [i |-> Len(results) + 1, step |-> step]

\* process_pdf or _process_single_url returns `result` after `step`.
PipelineReturn(result, step) ==
  IF run.kind = "pdf"
  THEN /\ FinishTask([raised |-> FALSE, value |-> result])
       /\ UNCHANGED <<results, urlLog>>
  ELSE /\ results' = Append(results, result)
       /\ urlLog' = urlLog \o <<LogEntry(step), LogEntry("result")>>
       /\ wpc' = "urls_loop"
       /\ UNCHANGED <<tasks, wjob>>

\* `step` of process_pdf or _process_single_url raises e.
PipelineRaise(e, step) ==
  IF run.kind = "pdf"
  THEN /\ FinishTask([raised |-> FALSE,
                      value |-> process_pdf_except(run.filename, e)])
       /\ UNCHANGED <<results, urlLog>>
  ELSE LET r == process_single_url_except(run.url, e)
       IN  IF "escaped" \in DOMAIN r
           THEN /\ FinishTask(process_urls_task_except(e))
                /\ urlLog' = Append(urlLog, LogEntry(step))
                /\ UNCHANGED results
           ELSE /\ results' = Append(results, r)
                /\ urlLog' = urlLog \o <<LogEntry(step), LogEntry("result")>>
                /\ wpc' = "urls_loop"
                /\ UNCHANGED <<tasks, wjob>>

\* The log after a step that does not end the run.
LogStep(step) ==
  IF run.kind = "urls" THEN Append(urlLog, LogEntry(step)) ELSE urlLog

\* process_pdf_task: the blob download and the event loop set-up.
PdfTaskDownload(ok) ==
  /\ wpc = "pdf_download"
  /\ LET t == tasks[wjob]
     IN  IF ok
         THEN /\ run' = [kind |-> "pdf", filename |-> t.filename]
              /\ wpc' = "pdf_upload"
              /\ UNCHANGED <<tasks, wjob>>
         ELSE /\ FinishTask(process_pdf_task_except(t.filename, "download"))
              /\ run' = NoRun
  /\ UNCHANGED <<index, blobs, results, urlLog, upserts,
                 ingests, ingestReq,
                 ingestResp>>
  /\ UNCHANGED <<graphVars, chatVars, opsVars, guardVars, caseVars>>

\* process_pdf as it would be if it went on with the blob the handler stored.
process_pdf_reuse(task, job) == task.blob_name

\* process_pdf: storage.upload_file(file, filename), the blob name it returns.
process_pdf_upload(task, job) == NewBlob("process_pdf", job, task.filename)

\* process_pdf: the upload of the received bytes to the blob container.
PdfUpload(ok) ==
  /\ wpc = "pdf_upload"
  /\ IF ok
     THEN /\ blobs' = blobs \cup {process_pdf_upload(tasks[wjob], wjob)}
          /\ run' = [kind |-> "pdf", filename |-> run.filename,
                     blob_name |-> process_pdf_upload(tasks[wjob], wjob)]
          /\ wpc' = "pdf_parse"
          /\ UNCHANGED <<tasks, wjob, results, urlLog>>
     ELSE /\ PipelineRaise("upload", "upload_file")
          /\ run' = NoRun
          /\ UNCHANGED blobs
  /\ UNCHANGED <<index, upserts, ingests, ingestReq,
                 ingestResp>>
  /\ UNCHANGED <<graphVars, chatVars, opsVars, guardVars, caseVars>>

\* process_pdf: download, _parse_pdf, _chunk_documents and _generate_doc_id.
PdfParse(ok, nchunks) ==
  /\ wpc = "pdf_parse"
  /\ IF ok
     THEN /\ run' = [kind |-> "pdf", filename |-> run.filename,
                     blob_name |-> run.blob_name,
                     doc_id |-> pdf_generate_doc_id(run.filename),
                     nchunks |-> nchunks, version |-> 0]
          /\ wpc' = "version"
          /\ UNCHANGED <<tasks, wjob, results, urlLog>>
     ELSE /\ PipelineRaise("parse", "parse")
          /\ run' = NoRun
  /\ UNCHANGED <<index, blobs, upserts, ingests, ingestReq,
                 ingestResp>>
  /\ UNCHANGED <<graphVars, chatVars, opsVars, guardVars, caseVars>>

\* process_urls_task: the event loop set-up before process_urls.
UrlsTaskStart(ok) ==
  /\ wpc = "urls_start"
  /\ IF ok
     THEN /\ wpc' = "urls_loop"
          /\ UNCHANGED <<tasks, wjob>>
     ELSE FinishTask(process_urls_task_except("loop"))
  /\ UNCHANGED <<index, blobs, run, results, urlLog, upserts,
                 ingests, ingestReq,
                 ingestResp>>
  /\ UNCHANGED <<graphVars, chatVars, opsVars, guardVars, caseVars>>

\* process_urls_task / process_urls: the head of the loop over the URLs, and
\* the aggregation once the list is exhausted.
UrlsLoop ==
  /\ wpc = "urls_loop"
  /\ LET urls == tasks[wjob].urls
     IN  IF Len(results) < Len(urls)
         THEN /\ run' = [kind |-> "urls", url |-> urls[Len(results) + 1]]
              /\ wpc' = "robots"
              /\ UNCHANGED <<tasks, wjob>>
         ELSE /\ FinishTask(
                   [raised |-> FALSE,
                    value |-> [status |-> "completed",
                               total_urls |-> Len(urls),
                               success_count |->
                                 Len(SelectSeq(results,
                                               LAMBDA r : r.status = "success")),
                               results |-> results]])
              /\ run' = NoRun
  /\ UNCHANGED <<index, blobs, results, urlLog, upserts,
                 ingests, ingestReq,
                 ingestResp>>
  /\ UNCHANGED <<graphVars, chatVars, opsVars, guardVars, caseVars>>

\* _process_single_url: the robots.txt check; outcome is what the check finds.
RobotsCheck(outcome) ==
  /\ wpc = "robots"
  /\ IF check_robots_txt(outcome)
     THEN /\ wpc' = "fetch"
          /\ urlLog' = Append(urlLog, [i |-> Len(results) + 1,
                                       step |-> "robots", outcome |-> outcome])
          /\ UNCHANGED <<results, run>>
     ELSE /\ results' = Append(results, [status |-> "skipped", url |-> run.url,
                                         reason |-> "Disallowed by robots.txt"])
          /\ urlLog' = urlLog \o
               <<[i |-> Len(results) + 1, step |-> "robots", outcome |-> outcome],
                 [i |-> Len(results) + 1, step |-> "result"]>>
          /\ wpc' = "urls_loop"
          /\ run' = NoRun
  /\ UNCHANGED <<index, blobs, tasks, wjob, upserts, ingests, ingestReq,
                 ingestResp>>
  /\ UNCHANGED <<graphVars, chatVars, opsVars, guardVars, caseVars>>

\* _process_single_url: _fetch_url, _parse_html, _chunk_document and
\* _generate_doc_id.
FetchUrl(ok, nchunks) ==
  /\ wpc = "fetch"
  /\ IF ok
     THEN /\ run' = [kind |-> "urls", url |-> run.url,
                     doc_id |-> web_generate_doc_id(run.url),
                     nchunks |-> nchunks, version |-> 0]
          /\ urlLog' = LogStep("fetch")
          /\ wpc' = "version"
          /\ UNCHANGED <<tasks, wjob, results>>
     ELSE /\ PipelineRaise("fetch", "fetch")
          /\ run' = NoRun
  /\ UNCHANGED <<index, blobs, upserts, ingests, ingestReq,
                 ingestResp>>
  /\ UNCHANGED <<graphVars, chatVars, opsVars, guardVars, caseVars>>

\* _get_next_version of either pipeline.
GetNextVersion(ok) ==
  /\ wpc = "version"
  /\ ok => index_exists
  /\ LET version == IF ok THEN next_version(index, run.doc_id)
                    ELSE next_version_on_error
     IN  /\ run' = [run EXCEPT !.version = version]
         /\ wpc' = IF version > 1 THEN "mark" ELSE "embed"
  /\ urlLog' = LogStep("version")
  /\ UNCHANGED <<index, blobs, tasks, wjob, results, upserts,
                 ingests, ingestReq,
                 ingestResp>>
  /\ UNCHANGED <<graphVars, chatVars, opsVars, guardVars, caseVars>>

\* upsert_documents: _mark_old_versions, which swallows its exceptions.
MarkOldVersions(ok) ==
  /\ wpc = "mark"
  /\ ok => index_exists
  /\ index' = IF ok THEN mark_old_versions(index, run.doc_id) ELSE index
  /\ wpc' = "embed"
  /\ urlLog' = LogStep("mark")
  /\ UNCHANGED <<blobs, tasks, wjob, run, results, upserts,
                 ingests, ingestReq,
                 ingestResp>>
  /\ UNCHANGED <<graphVars, chatVars, opsVars, guardVars, caseVars>>

\* upsert_documents: embed_documents.
EmbedDocuments(ok) ==
  /\ wpc = "embed"
  /\ IF ok
     THEN /\ wpc' = "upload_docs"
          /\ urlLog' = LogStep("embed")
          /\ UNCHANGED <<index, tasks, wjob, run, results, upserts>>
     ELSE /\ PipelineRaise("embed", "embed")
          /\ index' = upsert_documents_except(index, run.doc_id)
          /\ upserts' = Append(upserts, [doc_id |-> run.doc_id,
                                         version |-> run.version,
                                         returned |-> FALSE])
          /\ run' = NoRun
  /\ UNCHANGED <<blobs, ingests, ingestReq,
                 ingestResp>>
  /\ UNCHANGED <<graphVars, chatVars, opsVars, guardVars, caseVars>>

\* upsert_documents: upload_documents, which raises or reports per document
\* whether it succeeded; then the success result of the pipeline.
UploadDocuments(ok, succeeded) ==
  /\ wpc = "upload_docs"
  /\ ok => index_exists
  /\ succeeded \subseteq 1..run.nchunks
  /\ IF ok
     THEN /\ index' = upload_documents(index,
               {d \in search_documents(run.doc_id, run.version, run.nchunks,
                                  <<wjob, Len(results) + 1>>) :
                  d.chunk \in succeeded})
          /\ upserts' = Append(upserts, [doc_id |-> run.doc_id,
                                         version |-> run.version,
                                         returned |-> TRUE])
          /\ PipelineReturn(
               IF run.kind = "pdf"
               THEN [status |-> "success", filename |-> run.filename,
                     blob_name |-> run.blob_name, doc_id |-> run.doc_id,
                     version |-> run.version, total_chunks |-> run.nchunks]
               ELSE [status |-> "success", url |-> run.url,
                     doc_id |-> run.doc_id, version |-> run.version,
                     total_chunks |-> run.nchunks],
               "upload")
     ELSE /\ succeeded = {}
          /\ PipelineRaise("upload_documents", "upload")
          /\ upserts' = Append(upserts, [doc_id |-> run.doc_id,
                                         version |-> run.version,
                                         returned |-> FALSE])
          /\ index' = upsert_documents_except(index, run.doc_id)
  /\ run' = NoRun
  /\ UNCHANGED <<blobs, ingests, ingestReq,
                 ingestResp>>
  /\ UNCHANGED <<graphVars, chatVars, opsVars, guardVars, caseVars>>

\* VectorStore._ensure_index. get_index answers (get_ok) only for an index
\* that exists, and then the index, which this program created with the
\* configured dimensions, is kept as it is; otherwise create_index is called,
\* which raises on an index that exists.
ensure_index(exists, get_ok, create_ok) ==
  IF exists /\ get_ok
  THEN [raised |-> FALSE, exists |-> TRUE]
  ELSE IF ~exists /\ create_ok
  THEN [raised |-> FALSE, exists |-> TRUE]
  ELSE [raised |-> TRUE, exists |-> exists]

\* VectorStore.clear_all: delete_index, whose failure is only logged, then
\* _ensure_index, whose failure becomes the error result.
vector_clear_all(idx, exists, delete_ok, get_ok, create_ok) ==
  LET deleted == exists /\ delete_ok
      ensured == ensure_index(exists /\ ~deleted, get_ok, create_ok)
  IN  [index |-> IF deleted THEN {} ELSE idx,
       exists |-> ensured.exists,
       result |-> IF ensured.raised
                  THEN [status |-> "error", error |-> "ensure_index"]
                  ELSE [status |-> "success"]]

\* BlobStorage.clear_all: every blob is deleted, or a failure of the listing
\* or of one deletion leaves the blobs kept and becomes the error result.
blob_clear_all(container, ok, kept) ==
  IF ok
  THEN [blobs |-> {}, result |-> [status |-> "success"]]
  ELSE [blobs |-> kept, result |-> [status |-> "error", error |-> "storage"]]

\* The status of POST /clear as it would be if one successful clear sufficed.
clear_status_any(vector_result, storage_result) ==
  IF vector_result.status = "success" \/ storage_result.status = "success"
  THEN "success"
  ELSE "partial_success"

\* status_msg of clear_all_data
clear_status(vector_result, storage_result) ==
  IF vector_result.status = "success" /\ storage_result.status = "success"
  THEN "success"
  ELSE "partial_success"

\* POST /clear (clear_all_data): the vector clear, then the blob clear.
ClearAllData(delete_ok, get_ok, create_ok, storage_ok, kept) ==
  /\ clears < MaxClears
  /\ clears' = clears + 1
  /\ kept \subseteq blobs
  /\ (~storage_ok /\ blobs # {}) => kept # {}
  /\ LET vector == vector_clear_all(index, index_exists, delete_ok, get_ok,
                                    create_ok)
         storage == blob_clear_all(blobs, storage_ok, kept)
     IN  /\ index' = vector.index
         /\ index_exists' = vector.exists
         /\ blobs' = storage.blobs
         /\ clearResp' = [status |-> 200,
                          result |-> clear_status(vector.result, storage.result),
                          vector_result |-> vector.result,
                          storage_result |-> storage.result]
  /\ UNCHANGED <<tasks, wjob, wpc, run, results, urlLog, upserts, ingests,
                 ingestReq, ingestResp, docResp, jobResp>>
  /\ UNCHANGED <<graphVars, chatVars, guardVars, caseVars>>

\* The except clause of check_document_ingested.
check_document_ingested_except(doc_id, e) ==
  [raised |-> FALSE,
   value |-> [ingested |-> FALSE, doc_id |-> doc_id, error |-> e]]

\* A call of VectorStore.check_document_ingested: what it returns when the
\* search service answers (ok) and when a call of the service raises.
check_document_ingested_call(idx, doc_id, ok) ==
  IF ok /\ check_document_ingested(idx, doc_id) # {}
  THEN {[raised |-> FALSE, value |-> answer] :
          answer \in check_document_ingested(idx, doc_id)}
  ELSE {check_document_ingested_except(doc_id, "search")}

\* The doc_ids asked for: of the PDF, of the URL, of a file that is never
\* accepted, and one with quotes.
StatusDocIds ==
  {pdf_generate_doc_id(F_upper), web_generate_doc_id(UrlFeed(1)),
   pdf_generate_doc_id(F_text), D_inject}

\* GET /documents/{doc_id}/status (get_document_status)
GetDocumentStatus(doc_id, ok) ==
  /\ ok => index_exists
  /\ \E outcome \in check_document_ingested_call(index, doc_id, ok) :
       docResp' = [status |-> IF outcome.raised THEN 500 ELSE 200,
                   doc_id |-> doc_id, service_ok |-> ok, outcome |-> outcome]
  /\ UNCHANGED <<index, blobs, tasks, wjob, wpc, run, results, urlLog, upserts,
                 ingests, ingestReq, ingestResp, index_exists, clears,
                 clearResp, jobResp>>
  /\ UNCHANGED <<graphVars, chatVars, guardVars, caseVars>>

InitOps ==
  /\ index_exists = TRUE
  /\ clears = 0
  /\ clearResp = NoResp
  /\ docResp = NoResp
  /\ jobResp = NoResp

InitIngest ==
  /\ index = {}
  /\ blobs = {}
  /\ tasks = <<>>
  /\ wjob = 0
  /\ wpc = "idle"
  /\ run = NoRun
  /\ results = <<>>
  /\ urlLog = <<>>
  /\ upserts = <<>>
  /\ ingests = 0
  /\ ingestReq = NoIngestReq
  /\ ingestResp = NoResp
  /\ InitOps

\* The steps of the worker process.
WorkerStep ==
  \/ TaskStart
  \/ \E ok \in BOOLEAN : PdfTaskDownload(ok)
  \/ \E ok \in BOOLEAN : PdfUpload(ok)
  \/ \E ok \in BOOLEAN, nchunks \in 0..MaxDocChunks : PdfParse(ok, nchunks)
  \/ \E ok \in BOOLEAN : UrlsTaskStart(ok)
  \/ UrlsLoop
  \/ \E outcome \in {"allowed", "disallowed", "error"} : RobotsCheck(outcome)
  \/ \E ok \in BOOLEAN, nchunks \in 0..MaxDocChunks : FetchUrl(ok, nchunks)
  \/ \E ok \in BOOLEAN : GetNextVersion(ok)
  \/ \E ok \in BOOLEAN : MarkOldVersions(ok)
  \/ \E ok \in BOOLEAN : EmbedDocuments(ok)
  \/ \E ok \in BOOLEAN, succeeded \in SUBSET (1..MaxDocChunks) :
       UploadDocuments(ok, succeeded)

NextIngest ==
  \/ \E file \in Files \cup {NoFile}, urls \in UrlFields \cup {NoUrls},
        upload_ok \in BOOLEAN, broker_ok \in BOOLEAN :
       Ingest(file, urls, upload_ok, broker_ok)
  \/ \E body \in UrlFields, broker_ok \in BOOLEAN : IngestUrls(body, broker_ok)
  \/ WorkerStep

\* Ingestion requests that are accepted: a PDF upload, or a list of one URL.
AcceptedIngest ==
  \/ \E filename \in {F_upper, F_lower} :
       Ingest([filename |-> filename, oversized |-> FALSE], NoUrls, TRUE, TRUE)
  \/ Ingest(NoFile, [json |-> "list", list |-> <<UrlFeed(1)>>], TRUE, TRUE)

\* POST /clear with every outcome of the two clears.
ClearRequest ==
  \E delete_ok \in BOOLEAN, get_ok \in BOOLEAN, create_ok \in BOOLEAN :
    \/ ClearAllData(delete_ok, get_ok, create_ok, TRUE, {})
    \/ \E kept \in SUBSET blobs :
         ClearAllData(delete_ok, get_ok, create_ok, FALSE, kept)

NextOps ==
  \/ AcceptedIngest
  \/ WorkerStep
  \/ ClearRequest
  \/ \E doc_id \in StatusDocIds, ok \in BOOLEAN : GetDocumentStatus(doc_id, ok)

(***************************************************************************)
(* Two pipeline runs for the same doc_id that overlap                      *)
(***************************************************************************)

\* The two worker processes that run a pipeline at the same time.
Runners == {1, 2}

\* Both runs ingest the same file.
RaceDocId == pdf_generate_doc_id(F_upper)

\* What an earlier ingestion of the file has left in the index.
StoredBefore == search_documents(RaceDocId, 1, MaxDocChunks, <<0, 1>>)

\* A run before its version lookup. uploads_at_read and uploads_at_mark tell
\* how many runs had written their records when this run looked the version
\* up and when it marked the old versions.
FreshRun ==
  [pc |-> "version", version |-> 0, read_ok |-> FALSE, uploads_at_read |-> 0,
   uploads_at_mark |-> 0]

NoRuns == [w \in Runners |-> [FreshRun EXCEPT !.pc = "idle"]]

\* The runs that have written their records.
Uploaded == {w \in Runners : runs[w].pc = "done"}

\* The records run w has written.
RecordsBy(w) == {r \in index : r.id[1] = w}

\* _get_next_version in run w.
ConcurrentGetNextVersion(w, ok) ==
  /\ runs[w].pc = "version"
  /\ ok => index_exists
  /\ LET version == IF ok THEN next_version(index, RaceDocId)
                    ELSE next_version_on_error
     IN  runs' = [runs EXCEPT ![w].version = version,
                              ![w].read_ok = ok,
                              ![w].uploads_at_read = Cardinality(Uploaded),
                              ![w].pc = IF version > 1 THEN "mark" ELSE "embed"]
  /\ UNCHANGED <<graphVars, chatVars, ingestVars, guardVars, retrieval,
                 retryVars>>

\* upsert_documents in run w: _mark_old_versions.
ConcurrentMarkOldVersions(w, ok) ==
  /\ runs[w].pc = "mark"
  /\ ok => index_exists
  /\ index' = IF ok THEN mark_old_versions(index, RaceDocId) ELSE index
  /\ runs' = [runs EXCEPT ![w].uploads_at_mark = Cardinality(Uploaded),
                          ![w].pc = "embed"]
  /\ UNCHANGED <<blobs, tasks, wjob, wpc, run, results, urlLog, upserts,
                 ingests, ingestReq, ingestResp, opsVars>>
  /\ UNCHANGED <<graphVars, chatVars, guardVars, retrieval, retryVars>>

\* upsert_documents in run w: embed_documents.
ConcurrentEmbedDocuments(w, ok) ==
  /\ runs[w].pc = "embed"
  /\ runs' = [runs EXCEPT ![w].pc = IF ok THEN "upload_docs" ELSE "failed"]
  /\ UNCHANGED <<graphVars, chatVars, ingestVars, guardVars, retrieval,
                 retryVars>>

\* upsert_documents in run w: upload_documents.
ConcurrentUploadDocuments(w, ok) ==
  /\ runs[w].pc = "upload_docs"
  /\ ok => index_exists
  /\ index' = IF ok
              THEN upload_documents(index,
                     search_documents(RaceDocId, runs[w].version, MaxDocChunks,
                                      <<w, 1>>))
              ELSE index
  /\ runs' = [runs EXCEPT ![w].pc = IF ok THEN "done" ELSE "failed"]
  /\ UNCHANGED <<blobs, tasks, wjob, wpc, run, results, urlLog, upserts,
                 ingests, ingestReq, ingestResp, opsVars>>
  /\ UNCHANGED <<graphVars, chatVars, guardVars, retrieval, retryVars>>

(***************************************************************************)
(* The retriever (app/rag/retriever.py)                                    *)
(***************************************************************************)

\* settings.TOP_K_RESULTS
TOP_K_RESULTS == 6

\* top_k of the retrieve_by_layer calls of the chain and of the graph.
LayerTopK == 2

Layers == {"canonical", "safety", "practices", "qa"}

SetSize(k, S) == IF Cardinality(S) < k THEN Cardinality(S) ELSE k

\* _text_only_search without filters (filter_str is None): at most k records
\* of the index, or [] when the search raises.
text_only_search(idx, k, text_ok) ==
  IF ~text_ok THEN {[raised |-> FALSE, hits |-> {}]}
  ELSE {[raised |-> FALSE, hits |-> S] :
          S \in {T \in SUBSET idx : Cardinality(T) <= k}}

\* HybridRetriever.retrieve without filters, as every caller invokes it:
\* _build_filter_string(None) is None and the search ranges over the whole
\* index. embed is what embed_query gives (a vector, an empty vector, or it
\* raises); the hybrid search returns the k nearest records.
retrieve(idx, k, embed, search_ok, text_ok) ==
  IF embed = "raised" THEN {[raised |-> TRUE, hits |-> {}]}
  ELSE IF embed = "empty" THEN text_only_search(idx, k, text_ok)
  ELSE IF ~search_ok THEN {[raised |-> TRUE, hits |-> {}]}
  ELSE IF idx = {} THEN text_only_search(idx, k, text_ok)
  ELSE {[raised |-> FALSE, hits |-> S] :
          S \in {T \in SUBSET idx : Cardinality(T) = SetSize(k, idx)}}

\* HybridRetriever.retrieve_by_layer: the layer is not used and no filter is
\* set.
retrieve_by_layer(idx, layer, top_k, embed, search_ok, text_ok) ==
  retrieve(idx, top_k, embed, search_ok, text_ok)

NoRetrieval == [op |-> "none"]

\* The outcomes a retriever call is tried with.
RetrieverOutcomes ==
  {[embed |-> "vector", search_ok |-> TRUE, text_ok |-> TRUE],
   [embed |-> "vector", search_ok |-> FALSE, text_ok |-> TRUE],
   [embed |-> "empty", search_ok |-> TRUE, text_ok |-> TRUE],
   [embed |-> "empty", search_ok |-> TRUE, text_ok |-> FALSE],
   [embed |-> "raised", search_ok |-> TRUE, text_ok |-> TRUE]}

\* RAGChain.invoke without angelitic context: self.retriever.retrieve(query).
Retrieve(o) ==
  /\ index_exists
  /\ \E out \in retrieve(index, TOP_K_RESULTS, o.embed, o.search_ok, o.text_ok) :
       retrieval' = [op |-> "retrieve", layer |-> "none", raised |-> out.raised,
                     hits |-> out.hits]
  /\ UNCHANGED <<graphVars, chatVars, ingestVars, guardVars, runs, retryVars>>

\* One retrieve_by_layer call of _retrieve_angelitic_context or of
\* _retrieve_node.
RetrieveByLayer(layer, o) ==
  /\ index_exists
  /\ \E out \in retrieve_by_layer(index, layer, LayerTopK, o.embed, o.search_ok,
                                   o.text_ok) :
       retrieval' = [op |-> "retrieve_by_layer", layer |-> layer,
                     raised |-> out.raised, hits |-> out.hits]
  /\ UNCHANGED <<graphVars, chatVars, ingestVars, guardVars, runs, retryVars>>

\* No call in progress.
NoCall == [op |-> "none", attempts |-> 0, pc |-> "idle"]

InitCase ==
  /\ runs = NoRuns
  /\ retrieval = NoRetrieval
  /\ call = NoCall
  /\ callLog = <<>>

NextRace ==
  \/ \E w \in Runners, ok \in BOOLEAN :
       \/ ConcurrentGetNextVersion(w, ok)
       \/ ConcurrentMarkOldVersions(w, ok)
       \/ ConcurrentEmbedDocuments(w, ok)
       \/ ConcurrentUploadDocuments(w, ok)
  \/ \E o \in RetrieverOutcomes : Retrieve(o)
  \/ \E layer \in Layers, o \in RetrieverOutcomes : RetrieveByLayer(layer, o)

(***************************************************************************)
(* Calls behind tenacity's retry (app/models)                              *)
(***************************************************************************)

\* Number of calls of a decorated function made in one behaviour.
MaxCalls == 2

\* stop=stop_after_attempt(3)
stop_after_attempt == 3

\* The decorated functions: two coroutine functions and an async generator
\* function.
function_kind ==
  [embed_documents |-> "coroutine", embed_query |-> "coroutine",
   generate_response |-> "async_generator"]

\* retry(...) wraps a coroutine function with AsyncRetrying, whose attempts
\* await the body; any other function is wrapped with Retrying, whose attempt
\* is the plain call. Calling an async generator function only creates the
\* generator: its body, and the request to the service in it, runs when the
\* caller iterates, after the attempt has returned.
attempt_runs_body(kind) == kind = "coroutine"

\* The caller calls the decorated function op.
CallDecorated(op) ==
  /\ call = NoCall
  /\ Len(callLog) < MaxCalls
  /\ call' = [op |-> op, attempts |-> 0, pc |-> "attempt"]
  /\ UNCHANGED callLog
  /\ UNCHANGED <<graphVars, chatVars, ingestVars, guardVars, runs, retrieval>>

\* The body of the function runs and makes its request to the service, which
\* answers (ok) or raises; the body logs and re-raises what it caught.
ServiceAttempt(ok) ==
  /\ call.pc = "attempt"
  /\ LET made == call.attempts + 1
         again == /\ attempt_runs_body(function_kind[call.op])
                  /\ made < stop_after_attempt
     IN  call' = [call EXCEPT !.attempts = made,
                              !.pc = IF ok THEN "returned"
                                     ELSE IF again THEN "attempt"
                                     ELSE "raised"]
  /\ UNCHANGED callLog
  /\ UNCHANGED <<graphVars, chatVars, ingestVars, guardVars, runs, retrieval>>

\* The caller has the result or the exception of the call.
CallEnds ==
  /\ call.pc \in {"returned", "raised"}
  /\ callLog' = Append(callLog, call)
  /\ call' = NoCall
  /\ UNCHANGED <<graphVars, chatVars, ingestVars, guardVars, runs, retrieval>>

NextRetry ==
  \/ \E op \in DOMAIN function_kind : CallDecorated(op)
  \/ \E ok \in BOOLEAN : ServiceAttempt(ok)
  \/ CallEnds

(***************************************************************************)
(* Guardrails.check_query on its own                                       *)
(***************************************************************************)

\* The terms check_query looks for.
Terms ==
  {MEDICAL_KEYWORDS[k] : k \in 1..Len(MEDICAL_KEYWORDS)}
    \cup {emergency_keywords[k] : k \in 1..Len(emergency_keywords)}

\* str.upper on one character.
UpperChar(c) ==
  IF c \in LowerSet THEN Uppers[CHOOSE i \in 1..Len(Lowers) : Lowers[i] = c]
  ELSE c

\* A term as callers may spell it: lower case, upper case, capitalised.
Spellings(w) ==
  {w, [i \in 1..Len(w) |-> UpperChar(w[i])],
   [i \in 1..Len(w) |-> IF i = 1 THEN UpperChar(w[i]) ELSE w[i]]}

\* A term without its last letter.
Clipped(w) == SubSeq(w, 1, Len(w) - 1)

W_question ==
  <<"I","s"," ","i","t"," ">>

W_mark ==
  <<"?">>

\* What a query may have around a term: nothing, a question, other letters.
Around ==
  {[pre |-> <<>>, post |-> <<>>], [pre |-> W_question, post |-> W_mark],
   [pre |-> <<"x">>, post |-> <<"y">>]}

\* The queries check_query is applied to: the callers' queries, the empty
\* query, every term in every spelling and surrounding, and every clipped
\* term.
GuardQueries ==
  Queries \cup {<<>>}
    \cup {a.pre \o s \o a.post : a \in Around,
                                 s \in UNION {Spellings(w) : w \in Terms}}
    \cup UNION {Spellings(Clipped(w)) : w \in Terms}

\* guardrails.check_query(query)
CheckQuery ==
  /\ guardCheck = NoResp
  /\ guardCheck' = check_query(guardQuery)
  /\ UNCHANGED guardQuery
  /\ UNCHANGED <<graphVars, chatVars, ingestVars, caseVars>>

\* No query has been handed to check_query.
InitGuard ==
  /\ guardQuery = <<>>
  /\ guardCheck = NoResp

\* The state after construction, with a query about to be handed to
\* check_query.
InitGuardQuery ==
  /\ InitGraph
  /\ InitChat
  /\ InitIngest
  /\ InitCase
  /\ guardQuery \in GuardQueries
  /\ guardCheck = NoResp

NextGuard == CheckQuery

(***************************************************************************)
(* GET /jobs/{job_id} on its own (app/api/routes_jobs.py)                   *)
(***************************************************************************)

\* Most tasks the result backend holds when the job status is asked for.
MaxBackend == 2

\* The states of celery.states.
CeleryStates ==
  {"PENDING", "RECEIVED", "STARTED", "SUCCESS", "FAILURE", "REVOKED",
   "REJECTED", "RETRY", "IGNORED"}

\* What the backend holds for a task in a state: the returned payload of a
\* task that succeeded, the exception of one that failed or is retried.
BackendResults(state) ==
  IF state = "SUCCESS"
  THEN {[status |-> "completed", total_urls |-> 0, success_count |-> 0,
         results |-> <<>>],
        process_urls_task_except("loop").value}
  ELSE IF state \in {"FAILURE", "RETRY"}
  THEN {[exception |-> "WorkerLostError"]}
  ELSE {NoResult}

\* The entries of the result backend.
BackendEntries ==
  UNION {{[kind |-> "urls", urls |-> <<>>, state |-> state, result |-> result] :
            result \in BackendResults(state)} : state \in CeleryStates}

\* The contents of the result backend.
Backends == UNION {[1..n -> BackendEntries] : n \in 1..MaxBackend}

\* GET /jobs/{job_id} (get_job_status); ok tells whether the result backend
\* can be read.
GetJobStatus(job_id, ok) ==
  /\ jobResp' = IF ok THEN [status |-> 200, body |-> get_job_status(job_id)]
                ELSE [status |-> 500]
  /\ UNCHANGED <<index, blobs, tasks, wjob, wpc, run, results, urlLog, upserts,
                 ingests, ingestReq, ingestResp, index_exists, clears,
                 clearResp, docResp>>
  /\ UNCHANGED <<graphVars, chatVars, guardVars, caseVars>>

\* The state after construction, with a result backend that holds tasks.
InitJobs ==
  /\ InitGraph
  /\ InitChat
  /\ InitGuard
  /\ InitCase
  /\ index = {}
  /\ blobs = {}
  /\ tasks \in Backends
  /\ wjob = 0
  /\ wpc = "idle"
  /\ run = NoRun
  /\ results = <<>>
  /\ urlLog = <<>>
  /\ upserts = <<>>
  /\ ingests = 0
  /\ ingestReq = NoIngestReq
  /\ ingestResp = NoResp
  /\ InitOps

NextJobs ==
  \E job_id \in 1..(MaxBackend + 1), ok \in BOOLEAN : GetJobStatus(job_id, ok)

\* The state after construction with two runs for the same file about to
\* look the version up; the file was ingested before or not.
InitRace ==
  /\ InitGraph
  /\ InitChat
  /\ InitGuard
  /\ index \in {{}, StoredBefore}
  /\ blobs = {}
  /\ tasks = <<>>
  /\ wjob = 0
  /\ wpc = "idle"
  /\ run = NoRun
  /\ results = <<>>
  /\ urlLog = <<>>
  /\ upserts = <<>>
  /\ ingests = 0
  /\ ingestReq = NoIngestReq
  /\ ingestResp = NoResp
  /\ InitOps
  /\ runs = [w \in Runners |-> FreshRun]
  /\ retrieval = NoRetrieval
  /\ call = NoCall
  /\ callLog = <<>>

(***************************************************************************)
(* Specifications                                                          *)
(***************************************************************************)

Init == InitGraph /\ InitChat /\ InitIngest /\ InitGuard /\ InitCase

GraphStep ==
  \/ RewriteQueryNode
  \/ RetrieveNode
  \/ CheckRetrievalNode
  \/ GenerateNode
  \/ CheckResponseNode
  \/ AddCitationsNode
  \/ GraphReturn

NextGraph ==
  \/ \E messages \in MessageLists, thread_id \in Threads \cup {NoThread} :
       ChatWithGraph(messages, thread_id)
  \/ GraphStep

SpecGraph == Init /\ [][NextGraph]_vars

\* Every node call returns: a graph step that can be taken is taken.
FairSpecGraph == SpecGraph /\ WF_vars(GraphStep)

SpecChat == Init /\ [][NextChat]_vars

SpecIngest == Init /\ [][NextIngest]_vars

SpecOps == Init /\ [][NextOps]_vars

SpecJobs == InitJobs /\ [][NextJobs]_vars

SpecGuard == InitGuardQuery /\ [][NextGuard]_vars

SpecRace == InitRace /\ [][NextRace]_vars

SpecRetry == Init /\ [][NextRetry]_vars

(***************************************************************************)
(* Properties                                                              *)
(***************************************************************************)

\* C1: during every invoke, whatever retrieval, completion and the guardrail
\* check return and whether or not the thread has a checkpoint of an earlier
\* invoke, at most 2 corrective loop-backs are taken and retry_count is in
\* 0..2 in the running state and in every saved checkpoint.
C1_RetryBudget ==
  /\ loopbacks <= 2
  /\ gstate # NoState => gstate.retry_count \in 0..2
  /\ \A t \in Threads :
       checkpoints[t] # NoState => checkpoints[t].retry_count \in 0..2

\* An invoke on a thread that already had a checkpoint used its whole budget.
C1_Witness ==
  /\ gpc = "END"
  /\ resumed
  /\ loopbacks = 2
  /\ gstate.retry_count = 2

\* C2: under fair scheduling of the nodes every running invoke reaches
\* add_citations and then END, where the state carries response, citations
\* (those of the response) and retry_count.
C2_Terminates ==
  /\ (gpc \notin {"idle", "END", "add_citations"}) ~> (gpc = "add_citations")
  /\ (gpc = "add_citations") ~>
       (/\ gpc = "END"
        /\ {"response", "citations", "retry_count"} \subseteq DOMAIN gstate
        /\ gstate.citations = extract_citations(gstate.response))

\* An invoke ended although its last retrieval had fewer than 2 documents and
\* its last response still fails the guardrail check.
C2_Witness ==
  /\ gpc = "END"
  /\ Len(gstate.documents) < 2
  /\ InSeq("missing_citations", check_response(gstate.response).issues)
  /\ gstate.retry_count = 2

\* The upsert_documents calls made for doc_id, oldest first.
UpsertsOf(doc_id) == SelectSeq(upserts, LAMBDA u : u.doc_id = doc_id)

\* No upsert_documents call is in progress.
NoUpsertRunning == wpc \notin {"mark", "embed", "upload_docs"}

\* C3: once the upsert_documents calls made for a doc_id were for versions
\* 1, 2, ... in this order and each returned without raising, every record of
\* the doc_id with is_latest = true has the highest version written.
C3_LatestIsHighest ==
  NoUpsertRunning =>
    \A d \in {u.doc_id : u \in {upserts[k] : k \in 1..Len(upserts)}} :
      LET calls == UpsertsOf(d)
      IN  (\A k \in 1..Len(calls) : calls[k].returned /\ calls[k].version = k)
            => \A r \in RecordsOf(index, d) :
                 r.is_latest => r.version = Len(calls)

\* C4: the version a pipeline run has determined for its doc_id is greater
\* than every version stored in the index for that doc_id.
C4_VersionAboveStored ==
  wpc \in {"mark", "embed", "upload_docs"} =>
    \A r \in RecordsOf(index, run.doc_id) : r.version < run.version

\* C5: a request without a user message is answered with status 400, by
\* POST /chat and by POST /chat/graph, and invokes neither chain nor graph.
C5_NoUserMessage400 ==
  /\ (chatReq # NoReq /\ Len(UserMessages(chatReq.messages)) = 0)
       => (chatResp.status = 400 /\ chainCalls = 0 /\ chatPc = "idle")
  /\ (graphResp # NoResp /\ Len(UserMessages(graphReq)) = 0)
       => (graphResp.status = 400 /\ gpc = "idle")

\* The last /chat request has a user message and its query is an emergency.
EmergencyRequest ==
  /\ chatReq # NoReq
  /\ Len(UserMessages(chatReq.messages)) > 0
  /\ InSeq("emergency", check_query(LastUserQuery(chatReq.messages)).issues)

\* C6: a /chat request whose query is flagged as an emergency is answered,
\* with stream true as with stream false, by the JSON emergency message with
\* no citations; no chain is invoked and nothing is streamed.
C6_EmergencyShortCircuit ==
  EmergencyRequest =>
    /\ chatResp = [status |-> 200, kind |-> "json",
                   response |-> EMERGENCY_MESSAGE, citations |-> <<>>]
    /\ chainCalls = 0
    /\ frames = <<>>
    /\ chatPc = "idle"

\* A streaming request with an emergency query got the emergency answer.
C6_Witness ==
  /\ EmergencyRequest
  /\ chatReq.stream
  /\ chatResp.status = 200
  /\ chatResp.kind = "json"
  /\ chats = MaxChats

\* The tasks the worker has run to their end.
Finished == {j \in 1..Len(tasks) : tasks[j].state # "PENDING"}

\* C7: after process_pdf returned status success with doc_id d and version v,
\* and before any other ingestion starts, every answer check_document_ingested
\* can give for d has ingested = true and version = v.
C7_SuccessIsIngested ==
  (wjob = 0 /\ Finished # {}) =>
    LET last == tasks[SetMax(Finished)]
    IN  (last.kind = "pdf" /\ last.result.status = "success") =>
          \A answer \in check_document_ingested(index, last.result.doc_id) :
            /\ answer.ingested
            /\ answer.version = last.result.version

\* C8: every task a worker ran to its end is recorded as SUCCESS and reported
\* as completed, never as FAILURE or failed; what went wrong is in the
\* returned payload.
C8_TasksNeverFail ==
  \A j \in Finished :
    /\ tasks[j].state = "SUCCESS"
    /\ get_job_status(j).status = "completed"
    /\ get_job_status(j).result = tasks[j].result
    /\ tasks[j].result.status \in {"success", "error", "completed"}

\* A PDF task whose blob download failed and a URL task whose event loop
\* failed are both recorded as SUCCESS with an error payload.
C8_Witness ==
  /\ \E j \in Finished :
       /\ tasks[j].kind = "pdf"
       /\ tasks[j].state = "SUCCESS"
       /\ tasks[j].result = [status |-> "error",
                             filename |-> tasks[j].filename,
                             error |-> "download"]
  /\ \E j \in Finished :
       /\ tasks[j].kind = "urls"
       /\ tasks[j].state = "SUCCESS"
       /\ tasks[j].result = [status |-> "error", error |-> "loop"]

\* results holds one result per URL of the list, in the order of the list.
InInputOrder(res, urls) ==
  /\ Len(res) <= Len(urls)
  /\ \A i \in 1..Len(res) : res[i].url = urls[i]

\* C9: process_urls produces one result per input URL in input order; the
\* steps of a URL begin only after the result of the URL before it; and a
\* URL task ends only with the results of all its URLs, whatever failed on
\* the way.
C9_OneResultPerUrl ==
  /\ (wjob # 0 /\ tasks[wjob].kind = "urls") =>
       /\ InInputOrder(results, tasks[wjob].urls)
       /\ Len(results) =
            Cardinality({k \in 1..Len(urlLog) : urlLog[k].step = "result"})
       /\ Len(urlLog) > 0 => urlLog[1].i = 1
       /\ \A k \in 1..(Len(urlLog) - 1) :
            \/ urlLog[k + 1].i = urlLog[k].i /\ urlLog[k].step # "result"
            \/ urlLog[k + 1].i = urlLog[k].i + 1 /\ urlLog[k].step = "result"
  /\ \A j \in Finished :
       (tasks[j].kind = "urls" /\ tasks[j].result # process_urls_task_except("loop").value)
         => /\ tasks[j].result.status = "completed"
            /\ Len(tasks[j].result.results) = Len(tasks[j].urls)
            /\ InInputOrder(tasks[j].result.results, tasks[j].urls)
            /\ tasks[j].result.total_urls = Len(tasks[j].urls)

\* A task of two URLs ended with an error result for the first URL and a
\* success result for the second.
C9_Witness ==
  \E j \in Finished :
    /\ tasks[j].kind = "urls"
    /\ Len(tasks[j].urls) = 2
    /\ tasks[j].result.status = "completed"
    /\ tasks[j].result.results[1].status = "error"
    /\ tasks[j].result.results[2].status = "success"

\* The log entries of the robots.txt checks.
RobotsEntries == {k \in 1..Len(urlLog) : urlLog[k].step = "robots"}

\* C10: a URL that robots.txt disallows gets the result skipped with reason
\* "Disallowed by robots.txt" right after the check, with no fetch, chunking,
\* version lookup or upsert step; a URL whose robots.txt check fails is
\* fetched next, as an allowed URL is.
C10_RobotsGate ==
  \A k \in RobotsEntries :
    IF urlLog[k].outcome = "disallowed"
    THEN /\ k < Len(urlLog)
         /\ urlLog[k + 1] = [i |-> urlLog[k].i, step |-> "result"]
         /\ \A l \in 1..Len(urlLog) :
              urlLog[l].i = urlLog[k].i => urlLog[l].step \in {"robots", "result"}
         /\ Len(results) >= urlLog[k].i
         /\ results[urlLog[k].i].status = "skipped"
         /\ results[urlLog[k].i].reason = "Disallowed by robots.txt"
    ELSE IF k = Len(urlLog) THEN wpc = "fetch"
         ELSE urlLog[k + 1] = [i |-> urlLog[k].i, step |-> "fetch"]

\* One task met a disallowed URL, which it skipped, and then a URL whose
\* robots.txt check failed, which it fetched and ingested.
C10_Witness ==
  /\ Len(results) = 2
  /\ results[1].status = "skipped"
  /\ results[2].status = "success"
  /\ \E k \in RobotsEntries : urlLog[k].i = 1 /\ urlLog[k].outcome = "disallowed"
  /\ \E k \in RobotsEntries : urlLog[k].i = 2 /\ urlLog[k].outcome = "error"

\* The step is a POST /ingest request being answered.
IngestAnswered == ingests' # ingests /\ ingestReq'.endpoint = "/ingest"

\* C11: POST /ingest with neither a file nor urls is answered with a client
\* error (400 or 422), and a POST /ingest request answered with a client error
\* (status 400..499) leaves the blob container and the task queue as they
\* were: it has uploaded no blob and enqueued no task.
C11_ClientErrorNoEffect ==
  [][IngestAnswered =>
       /\ (ingestReq'.file = NoFile /\ ingestReq'.urls = NoUrls
             => ingestResp'.status \in {400, 422})
       /\ (ingestResp'.status \in 400..499
             => blobs' = blobs /\ tasks' = tasks)]_vars

\* A request without file and urls has been answered with a client error
\* after an earlier request had stored a blob and queued a task.
C11_Witness ==
  /\ ingestReq.endpoint = "/ingest"
  /\ ingestReq.file = NoFile
  /\ ingestReq.urls = NoUrls
  /\ ingestResp.status = 400
  /\ blobs # {}
  /\ Len(tasks) = 1

\* C12: a POST /ingest request that supplies both a file and a urls field
\* is rejected with status 400, uploads no blob and enqueues no task.
C12_BothRejected ==
  [][IngestAnswered /\ ingestReq'.file # NoFile /\ ingestReq'.urls # NoUrls
       => /\ ingestResp'.status = 400
          /\ blobs' = blobs
          /\ tasks' = tasks]_vars

\* The content frames for the chunks the chain has yielded, one per chunk
\* and in the order of the chunks.
ContentFrames ==
  [i \in 1..Len(produced) |-> [type |-> "content", chunk |-> produced[i]]]

\* The generator of a streamed POST /chat has run to its end.
StreamFinished ==
  /\ chatPc = "idle"
  /\ chatReq.stream
  /\ chatResp.status = 200
  /\ chatResp.kind = "stream"

\* The frames that follow the content frames.
TailFrames == SubSeq(frames, Len(produced) + 1, Len(frames))

\* C13: the frames of a streamed POST /chat are the content frames, one per
\* chunk the chain yielded and in the order it yielded them; a finished
\* stream continues with exactly one citations frame and then [DONE] as
\* the last frame, or, after a failure, with exactly one error frame as the
\* last frame and no citations frame and no [DONE].
C13_FrameOrder ==
  /\ chatPc = "streaming" => frames = ContentFrames
  /\ StreamFinished =>
       /\ SubSeq(frames, 1, Len(produced)) = ContentFrames
       /\ \/ /\ Len(TailFrames) = 2
             /\ TailFrames[1].type = "citations"
             /\ TailFrames[1].citations = extract_citations(full_response)
             /\ TailFrames[2] = [type |-> "done"]
          \/ TailFrames = <<[type |-> "error"]>>

\* A stream that failed after two different chunks had been sent.
C13_Witness ==
  /\ StreamFinished
  /\ Len(produced) = 2
  /\ produced[1] # produced[2]
  /\ frames[Len(frames)].type = "error"

\* The step is a request to POST /ingest or POST /ingest/urls being answered.
IngestionAnswered == ingests' # ingests

\* C14: a POST /ingest or POST /ingest/urls request that is accepted (200)
\* is answered with status "queued" and has appended exactly one task to the
\* queue, whose task id (its position) is the job_id of the answer; a PDF
\* task carries the name of the blob that the same request has just stored.
C14_AcceptedEnqueuesOne ==
  [][IngestionAnswered /\ ingestResp'.status = 200 =>
       /\ ingestResp'.job_status = "queued"
       /\ Len(tasks') = Len(tasks) + 1
       /\ SubSeq(tasks', 1, Len(tasks)) = tasks
       /\ ingestResp'.job_id = Len(tasks')
       /\ LET task == tasks'[Len(tasks')]
          IN  IF ingestReq'.endpoint = "/ingest" /\ ingestReq'.file # NoFile
              THEN /\ task.kind = "pdf"
                   /\ task.filename = ingestReq'.file.filename
                   /\ task.blob_name \in blobs' \ blobs
              ELSE /\ task.kind = "urls"
                   /\ blobs' = blobs]_vars

\* POST /ingest/urls has been accepted as the second job, after a PDF.
C14_Witness ==
  /\ ingestReq.endpoint = "/ingest/urls"
  /\ ingestResp.status = 200
  /\ ingestResp.job_id = 2
  /\ Len(tasks) = 2
  /\ tasks[1].kind = "pdf"
  /\ tasks[1].blob_name \in blobs

\* The step is a POST /clear request being answered.
ClearAnswered == clears' # clears

\* The doc_ids that have a record in the index.
DocIdsOf(idx) == {r.doc_id : r \in idx}

\* C15: whenever the vector clear of a POST /clear reports status success,
\* the index holds no record of a doc_id it held before the call:
\* check_document_ingested answers ingested = false for every such doc_id.
C15_SuccessMeansEmpty ==
  [][ClearAnswered /\ clearResp'.vector_result.status = "success" =>
       \A doc_id \in DocIdsOf(index) :
         /\ RecordsOf(index', doc_id) = {}
         /\ \A answer \in check_document_ingested(index', doc_id) :
              ~answer.ingested]_vars

\* C16: POST /clear answers success if and only if the vector clear and the
\* blob clear both reported success, and partial_success otherwise; the blob
\* clear has run, and its result is reported, whatever the vector clear
\* reported.
C16_ClearStatus ==
  [][ClearAnswered =>
       LET vector_result == clearResp'.vector_result
           storage_result == clearResp'.storage_result
       IN  /\ clearResp'.result \in {"success", "partial_success"}
           /\ clearResp'.result = "success" <=>
                (vector_result.status = "success"
                 /\ storage_result.status = "success")
           /\ storage_result.status \in {"success", "error"}
           /\ storage_result.status = "success" => blobs' = {}]_vars

\* The vector clear reported an error and the blob clear still emptied a
\* container that held a blob.
C16_Witness ==
  /\ clears = 1
  /\ clearResp.result = "partial_success"
  /\ clearResp.vector_result.status = "error"
  /\ clearResp.storage_result.status = "success"
  /\ blobs = {}
  /\ Len(tasks) > 0
  /\ tasks[1].kind = "pdf"

\* The doc_ids an upsert_documents call was ever made for.
EverUpserted == {upserts[k].doc_id : k \in 1..Len(upserts)}

\* C17: a call of check_document_ingested never raises; for a doc_id that was
\* never ingested it returns ingested = false; when the search service fails
\* it returns exactly {ingested: false, doc_id, error}; and the call leaves
\* the index as it was.
C17_StatusNeverRaises ==
  [][docResp' # docResp =>
       LET outcome == docResp'.outcome
       IN  /\ ~outcome.raised
           /\ docResp'.doc_id \notin EverUpserted => ~outcome.value.ingested
           /\ ~docResp'.service_ok =>
                /\ DOMAIN outcome.value = {"ingested", "doc_id", "error"}
                /\ outcome.value.doc_id = docResp'.doc_id
                /\ ~outcome.value.ingested
           /\ index' = index
           /\ index_exists' = index_exists]_vars

T_emergency ==
  <<"e","m","e","r","g","e","n","c","y">>

T_crisis ==
  <<"c","r","i","s","i","s">>

T_suicide ==
  <<"s","u","i","c","i","d","e">>

T_harm ==
  <<"h","a","r","m">>

\* Python's `term in text` for one of the terms, written out on the text.
HasTerm(terms, text) ==
  \E term \in terms :
    \E i \in 1..Len(text) :
      /\ i + Len(term) - 1 <= Len(text)
      /\ SubSeq(text, i, i + Len(term) - 1) = term

\* C18: check_query reports medical_query exactly when the lower-cased query
\* contains one of the medical terms, and emergency exactly when it contains
\* one of emergency, crisis, suicide, harm; is_safe is true exactly when no
\* issue is reported, and requires_disclaimer is the negation of is_safe.
C18_CheckQueryExact ==
  guardCheck # NoResp =>
    LET lowered == [i \in 1..Len(guardQuery) |-> LowerChar(guardQuery[i])]
        issues == {guardCheck.issues[k] : k \in 1..Len(guardCheck.issues)}
        medical_terms == {MEDICAL_KEYWORDS[k] : k \in 1..Len(MEDICAL_KEYWORDS)}
    IN  /\ issues \subseteq {"medical_query", "emergency"}
        /\ Len(guardCheck.issues) = Cardinality(issues)
        /\ "medical_query" \in issues <=> HasTerm(medical_terms, lowered)
        /\ "emergency" \in issues <=>
             HasTerm({T_emergency, T_crisis, T_suicide, T_harm}, lowered)
        /\ guardCheck.is_safe <=> guardCheck.issues = <<>>
        /\ guardCheck.requires_disclaimer <=> ~guardCheck.is_safe

\* check_query has reported emergency, and nothing else, for a query that
\* does not spell the term in lower case.
C18_Witness ==
  /\ guardCheck # NoResp
  /\ guardQuery # Lower(guardQuery)
  /\ guardCheck.issues = <<"emergency">>
  /\ ~guardCheck.is_safe

\* How the queue states that status_map does not name, and their lower-cased
\* names, are spelt.
StateSpelling ==
  [RECEIVED |-> <<"R", "E", "C", "E", "I", "V", "E", "D">>,
   REJECTED |-> <<"R", "E", "J", "E", "C", "T", "E", "D">>,
   IGNORED |-> <<"I", "G", "N", "O", "R", "E", "D">>,
   received |-> <<"r", "e", "c", "e", "i", "v", "e", "d">>,
   rejected |-> <<"r", "e", "j", "e", "c", "t", "e", "d">>,
   ignored |-> <<"i", "g", "n", "o", "r", "e", "d">>]

\* C19: GET /jobs/{job_id} maps PENDING, STARTED, SUCCESS, FAILURE, RETRY,
\* REVOKED to queued, processing, completed, failed, retrying, cancelled and
\* any other state to its lower-cased name; the response carries a result
\* exactly when the state is SUCCESS and an error exactly when the state is
\* FAILURE, never both.
C19_JobStatusMapping ==
  (jobResp # NoResp /\ jobResp.status = 200) =>
    LET body == jobResp.body
        state == task_state(body.job_id)
    IN  /\ state = "PENDING" => body.status = "queued"
        /\ state = "STARTED" => body.status = "processing"
        /\ state = "SUCCESS" => body.status = "completed"
        /\ state = "FAILURE" => body.status = "failed"
        /\ state = "RETRY" => body.status = "retrying"
        /\ state = "REVOKED" => body.status = "cancelled"
        /\ state \in {"RECEIVED", "REJECTED", "IGNORED"} =>
             StateSpelling[body.status] = Lower(StateSpelling[state])
        /\ body.result # NoResult <=> state = "SUCCESS"
        /\ body.error # NoResult <=> state = "FAILURE"
        /\ ~(body.result # NoResult /\ body.error # NoResult)

\* The status of a task that is being retried was asked for after a task
\* that failed.
C19_Witness ==
  /\ jobResp # NoResp
  /\ jobResp.status = 200
  /\ jobResp.body.job_id = 2
  /\ jobResp.body.status = "retrying"
  /\ tasks[1].state = "FAILURE"

\* The step is the check_retrieval node and the edge that follows it.
CheckRetrievalStep == gpc = "check_retrieval" /\ gpc' # gpc

\* C20: check_retrieval sets needs_retry to (fewer than 2 documents and
\* retry_count < 2), adds exactly 1 to retry_count if needs_retry and leaves
\* it unchanged otherwise; the next node is rewrite_query exactly when
\* needs_retry is true and generate otherwise.
C20_CheckRetrieval ==
  [][CheckRetrievalStep =>
       LET expected == Len(gstate.documents) < 2 /\ gstate.retry_count < 2
       IN  /\ gstate'.needs_retry = expected
           /\ gstate'.retry_count =
                IF expected THEN gstate.retry_count + 1 ELSE gstate.retry_count
           /\ gstate'.documents = gstate.documents
           /\ gpc' = IF gstate'.needs_retry THEN "rewrite_query"
                     ELSE "generate"]_vars

\* The budget is exhausted and the graph has gone on to generate with fewer
\* than 2 documents.
C20_Witness ==
  /\ gpc = "generate"
  /\ Len(gstate.documents) < 2
  /\ gstate.retry_count = 2
  /\ ~gstate.needs_retry

\* The step is the check_response node and the edge that follows it.
CheckResponseStep == gpc = "check_response" /\ gpc' # gpc

\* C21: check_response sets needs_retry to (the guardrail check reports
\* missing_citations or contains_medical_advice, and retry_count < 2) and
\* adds exactly 1 to retry_count only then; the next node is retrieve when
\* needs_retry is true and add_citations otherwise; a response whose only
\* issue is missing_safety_warning is never retried.
C21_CheckResponse ==
  [][CheckResponseStep =>
       LET issues == check_response(gstate.response).issues
           critical == \/ InSeq("missing_citations", issues)
                       \/ InSeq("contains_medical_advice", issues)
           expected == critical /\ gstate.retry_count < 2
       IN  /\ gstate'.needs_retry = expected
           /\ gstate'.retry_count =
                IF expected THEN gstate.retry_count + 1 ELSE gstate.retry_count
           /\ gpc' = IF gstate'.needs_retry THEN "retrieve" ELSE "add_citations"
           /\ issues = <<"missing_safety_warning">> =>
                /\ ~gstate'.needs_retry
                /\ gstate'.retry_count = gstate.retry_count
                /\ gpc' = "add_citations"]_vars

\* A response that only lacks a safety warning went on to add_citations while
\* the retry budget was untouched.
C21_Witness ==
  /\ gpc = "add_citations"
  /\ check_response(gstate.response).issues = <<"missing_safety_warning">>
  /\ gstate.retry_count = 0
  /\ ~gstate.needs_retry

\* C22: the retrieve node queries with the rewritten query when rewriting
\* produced a non-empty text and with the original query otherwise; after a
\* rewrite whose completion was blank the retrieval is run with the original
\* query.
C22_RetrieveQuery ==
  (gpc = "check_retrieval" /\ gcalls.retrieved) =>
    gcalls.query = IF gstate.rewritten_query # <<>>
                   THEN gstate.rewritten_query ELSE gstate.query

\* The step is a rewrite_query, retrieve or generate node whose call of the
\* completion service or of the retriever raised.
FailingNodeStep(node) == gpc = node /\ gpc' # gpc /\ gcalls'.last_failed

\* C26: a failure inside rewrite_query, retrieve or generate does not abort
\* the invoke: a failing rewrite leaves rewritten_query equal to the original
\* query, a failing retrieval leaves documents empty, a failing generation
\* sets response to the apology string; the graph goes on with the next node
\* and the failing node changes no other field of the state.
C26_NodeFailureContained ==
  [][/\ FailingNodeStep("rewrite_query") =>
          /\ gstate' = [gstate EXCEPT !.rewritten_query = gstate.query]
          /\ gpc' = "retrieve"
     /\ FailingNodeStep("retrieve") =>
          /\ gstate' = [gstate EXCEPT !.documents = <<>>]
          /\ gpc' = "check_retrieval"
     /\ FailingNodeStep("generate") =>
          /\ gstate' = [gstate EXCEPT !.response = APOLOGY]
          /\ gpc' = "check_response"
     /\ (gpc \in {"rewrite_query", "retrieve", "generate"} /\ gpc' # gpc) =>
          /\ graphResp' = graphResp
          /\ gthread' = gthread]_vars

\* The rewrite, the retrieval and the generation of one invoke all failed and
\* the invoke still returned its answer.
C26_Witness ==
  /\ gpc = "idle"
  /\ graphResp.status = 200
  /\ graphResp.response = APOLOGY
  /\ gstate.rewritten_query = gstate.query
  /\ gstate.documents = <<>>
  /\ gcalls.completions_failed
  /\ gcalls.last_failed

\* Every completion call of the running invoke has failed and every retrieval
\* has produced at least 2 documents.
AllCompletionsFail == gcalls.completions_failed /\ gcalls.docs_enough

\* C29: the apology of a failed generation carries no source marker, so
\* check_response sends it back to retrieve while retry_count < 2; an invoke
\* all of whose completion calls fail while every retrieval yields at least 2
\* documents comes to its end, and ends with the apology as response, no
\* citation and retry_count = 2.
C29_FailedGenerationBudget ==
  /\ [][(CheckResponseStep /\ gstate.response = APOLOGY) =>
          /\ InSeq("missing_citations", check_response(APOLOGY).issues)
          /\ gpc' = IF gstate.retry_count < 2 THEN "retrieve"
                    ELSE "add_citations"
          /\ gstate'.retry_count =
               IF gstate.retry_count < 2 THEN gstate.retry_count + 1 ELSE 2]_vars
  /\ []((gpc = "END" /\ AllCompletionsFail) =>
          /\ gstate.response = APOLOGY
          /\ gstate.citations = <<>>
          /\ gstate.retry_count = 2)
  /\ (gpc = "generate" /\ AllCompletionsFail)
       ~> (gpc = "END" \/ ~AllCompletionsFail)

\* An invoke whose completion calls all failed has ended after two loop-backs
\* from check_response, each retrieval having produced 2 documents.
C29_Witness ==
  /\ gpc = "END"
  /\ AllCompletionsFail
  /\ gcalls.retrieved
  /\ Len(gstate.documents) = 2
  /\ gstate.response = APOLOGY
  /\ gstate.retry_count = 2
  /\ loopbacks = 2

\* Both runs looked the version up, and got an answer, before either had
\* written its records.
BothReadEarly ==
  \A w \in Runners :
    /\ runs[w].pc \notin {"idle", "version"}
    /\ runs[w].read_ok
    /\ runs[w].uploads_at_read = 0

\* Both runs have written their records, and each marked the old versions,
\* if it did, before the other had written.
BothWroteUnmarked ==
  \A w \in Runners : runs[w].pc = "done" /\ runs[w].uploads_at_mark = 0

\* C23: version assignment is read-then-increment without a guard. Two
\* overlapping runs for one doc_id that both look the version up before
\* either writes get the same version number, the highest stored plus 1; and
\* when both have also marked the old versions before either writes, the
\* records of both runs are in the index with is_latest = true, so that two
\* generations of records carry the same version.
C23_VersionRace ==
  /\ BothReadEarly =>
       /\ runs[1].version = runs[2].version
       /\ \A r \in RecordsOf(index, RaceDocId) \ (RecordsBy(1) \cup RecordsBy(2)) :
            r.version < runs[1].version
  /\ BothWroteUnmarked =>
       \A w \in Runners :
         /\ RecordsBy(w) # {}
         /\ \A r \in RecordsBy(w) : r.is_latest /\ r.version = runs[w].version

\* The file was stored as version 1; both runs read version 2, both marked
\* version 1, and both wrote version 2 records that are is_latest.
C23_Witness ==
  /\ BothReadEarly
  /\ BothWroteUnmarked
  /\ runs[1].version = 2
  /\ runs[2].version = 2
  /\ \E r \in RecordsBy(1) : r.is_latest /\ r.version = 2
  /\ \E r \in RecordsBy(2) : r.is_latest /\ r.version = 2
  /\ \A r \in StoredBefore : [r EXCEPT !.is_latest = FALSE] \in index

\* The step is a call of retrieve or retrieve_by_layer that returns.
RetrieverReturns == retrieval' # retrieval /\ ~retrieval'.raised

\* The doc_id has been ingested again as version 2: its version-2 records
\* are is_latest and its version-1 records are not.
Reingested ==
  /\ \E r \in RecordsOf(index, RaceDocId) : r.version = 2 /\ r.is_latest
  /\ \A r \in RecordsOf(index, RaceDocId) : r.version = 1 => ~r.is_latest

\* C25: chat retrieval uses only the latest version of a document: once a
\* doc_id has been ingested again as version 2, retrieve and
\* retrieve_by_layer return no chunk with is_latest = false, so no version-1
\* chunk of the doc_id.
C25_RetrievesLatestOnly ==
  [][(RetrieverReturns /\ Reingested)
       => \A h \in retrieval'.hits : h.is_latest]_vars

\* The calls of decorated functions made so far, the one in progress included.
CallsMade ==
  {callLog[k] : k \in 1..Len(callLog)} \cup (IF call = NoCall THEN {} ELSE {call})

\* C24: each call of embed_documents, embed_query and generate_response makes
\* at most 3 attempts at the service: while fewer than 3 were made a failed
\* attempt is followed by another, a success of attempt 1, 2 or 3 is returned,
\* and only the failure of the third attempt reaches the caller.
C24_ThreeAttempts ==
  \A c \in CallsMade :
    /\ c.attempts <= 3
    /\ c.pc = "attempt" => c.attempts < 3
    /\ c.pc = "returned" => c.attempts \in 1..3
    /\ c.pc = "raised" => c.attempts = 3

\* The titles and references of a citations frame.
CitedTexts(frame) ==
  UNION {{frame.citations[i].title, frame.citations[i].reference} :
           i \in 1..Len(frame.citations)}

\* No frame sent for the request carries the medical disclaimer; the content
\* frames are the chunks of the chain, and while chunks are being sent the
\* accumulated response has no disclaimer either.
StreamWithoutDisclaimer ==
  /\ \A k \in 1..Len(frames) :
       /\ frames[k].type = "content" =>
            /\ frames[k].chunk = produced[k]
            /\ ~Contains(frames[k].chunk, DISCLAIMER_medical)
       /\ frames[k].type = "citations" =>
            \A t \in CitedTexts(frames[k]) : ~Contains(t, DISCLAIMER_medical)
  /\ chatPc = "streaming" => ~Contains(full_response, DISCLAIMER_medical)
  /\ (StreamFinished /\ frames[Len(frames)].type = "done") =>
       (EndsWith(full_response, DISCLAIMER_medical)
          <=> InSeq("medical_query",
                    check_query(LastUserQuery(chatReq.messages)).issues))

\* The last request was not streaming and got its answer.
AnsweredInFull ==
  /\ chatReq # NoReq
  /\ ~chatReq.stream
  /\ chatResp.status = 200

\* The query of the last request was flagged medical_query.
MedicalRequest ==
  InSeq("medical_query", check_query(LastUserQuery(chatReq.messages)).issues)

\* C27 as stated: in streaming mode the medical disclaimer is appended to the
\* accumulated response only after every content frame was sent, so that no
\* frame carries it; in non-streaming mode the returned response ends with
\* the medical disclaimer exactly when the query was flagged medical_query.
C27_DisclaimerAsStated ==
  /\ StreamWithoutDisclaimer
  /\ AnsweredInFull =>
       (EndsWith(chatResp.response, DISCLAIMER_medical) <=> MedicalRequest)

\* C27, amended: as stated, for the queries that are not flagged emergency;
\* an emergency query, also one flagged medical_query, is answered by the
\* emergency message without a disclaimer.
C27_DisclaimerPlacement ==
  /\ StreamWithoutDisclaimer
  /\ AnsweredInFull =>
       IF EmergencyRequest
       THEN chatResp.response = EMERGENCY_MESSAGE
            /\ ~EndsWith(chatResp.response, DISCLAIMER_medical)
       ELSE EndsWith(chatResp.response, DISCLAIMER_medical) <=> MedicalRequest

\* A medical query was answered in full with the disclaimer at the end, and
\* then a medical query was streamed: two content frames without the
\* disclaimer, the citations, [DONE], and the disclaimer only in the
\* accumulated response.
C27_Witness ==
  /\ chats = 2
  /\ StreamFinished
  /\ MedicalRequest
  /\ Len(frames) = 4
  /\ frames[1].type = "content"
  /\ frames[2].type = "content"
  /\ frames[4].type = "done"
  /\ EndsWith(full_response, DISCLAIMER_medical)
  /\ full_response =
       produced[1] \o produced[2] \o <<"\n", "\n">> \o DISCLAIMER_medical

\* No stored record of the doc_id is flagged is_latest.
NoLatest(idx, doc_id) == \A r \in RecordsOf(idx, doc_id) : ~r.is_latest

\* The step in which _mark_old_versions of the running upsert did its merge.
OldVersionsMarked ==
  /\ wpc = "mark"
  /\ wpc' = "embed"
  /\ index' = mark_old_versions(index, run.doc_id)

\* An upsert with version > 1 is past _mark_old_versions.
UpsertPastMark ==
  /\ wpc \in {"embed", "upload_docs"}
  /\ run.version > 1

\* The step in which the running upsert with version > 1 raises, at the
\* embedding or at the upload.
UpsertFails ==
  /\ UpsertPastMark
  /\ Len(upserts') = Len(upserts) + 1
  /\ ~upserts'[Len(upserts')].returned

\* Every answer of check_document_ingested says the doc_id is not ingested
\* and counts the records stored for it.
ReportsNotIngested(idx, doc_id) ==
  /\ check_document_ingested(idx, doc_id) # {}
  /\ \A a \in check_document_ingested(idx, doc_id) :
       ~a.ingested /\ a.total_docs_for_id > 0

\* C28: upsert_documents has no rollback. Once _mark_old_versions of an
\* upsert with version > 1 did its merge no record of the doc_id is
\* is_latest; the index stays as it is while the upsert goes on; and when the
\* upsert then raises at the embedding or at the upload the index is left as
\* it is, with the earlier versions stored, no new record and no is_latest
\* record, so that check_document_ingested reports ingested = false.
C28_NoRollback ==
  [][/\ OldVersionsMarked => NoLatest(index', run.doc_id)
     /\ (UpsertPastMark /\ UpsertPastMark') => index' = index
     /\ UpsertFails =>
          /\ index' = index
          /\ RecordsOf(index', run.doc_id) # {}
          /\ \A r \in RecordsOf(index', run.doc_id) : r.version < run.version
          /\ NoLatest(index, run.doc_id) =>
               ReportsNotIngested(index', run.doc_id)]_vars

\* The last upsert had version 2 and raised after the version-1 records were
\* marked: the doc_id has stored records, none is_latest, and is reported as
\* not ingested.
C28_Witness ==
  /\ upserts # <<>>
  /\ LET u == upserts[Len(upserts)]
     IN  /\ ~u.returned
         /\ u.version = 2
         /\ RecordsOf(index, u.doc_id) # {}
         /\ NoLatest(index, u.doc_id)
         /\ ReportsNotIngested(index, u.doc_id)

\* The PDF jobs whose pipeline returned its success result.
ProcessedPdfJobs ==
  {j \in 1..Len(tasks) :
     /\ tasks[j].kind = "pdf"
     /\ tasks[j].state = "SUCCESS"
     /\ tasks[j].result.status = "success"}

\* C30: a PDF accepted by POST /ingest is stored in the blob container
\* twice, by the handler before it enqueues and by process_pdf; the
\* blob_name of the job's success result is the name of the second blob and
\* differs from the blob name the handler passed to the task.
C30_StoredTwice ==
  \A j \in ProcessedPdfJobs :
    LET t == tasks[j]
    IN  /\ t.blob_name \in blobs
        /\ t.result.blob_name \in blobs
        /\ t.result.blob_name # t.blob_name
        /\ t.result.blob_name = process_pdf_upload(t, j)
        /\ t.result.filename = t.filename
        /\ Cardinality({b \in blobs : b.filename = t.filename}) >= 2

\* Two PDFs were accepted and processed: each is stored once by the handler
\* and once by process_pdf, four blobs in all.
C30_Witness ==
  /\ ProcessedPdfJobs = {1, 2}
  /\ Cardinality(blobs) = 4
  /\ \A j \in ProcessedPdfJobs :
       tasks[j].result.blob_name = NewBlob("process_pdf", j, tasks[j].filename)
====
